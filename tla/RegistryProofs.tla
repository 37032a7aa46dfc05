--------------------------- MODULE RegistryProofs ---------------------------
(***************************************************************************)
(* What Registry guarantees for any components, names and callers of Run:  *)
(* what was accepted is what is driven, once, under distinct names.        *)
(***************************************************************************)
EXTENDS Registry, TLAPS

\* The table agrees with what Register answered, and names nothing twice.
TableInv ==
  /\ \A c \in Component : reply[c] = "ok" <=> \E k \in 1 .. Len(components) : components[k] = c
  /\ \A k \in 1 .. Len(components) : Name(components[k]) \in names
  /\ \A j, k \in 1 .. Len(components) : Name(components[j]) = Name(components[k]) => j = k

\* Whoever drives the App has closed the table, and sees it as it will stay.
DriveInv ==
  /\ \A d \in Driver : driver[d] \in {"marked", "running"} => started
  /\ \A d \in Driver : driver[d] = "running" => items[d] = components
  /\ DrivenOnce

IInv == TypeOK /\ TableInv /\ DriveInv

\* An accepted component joins the table under a name of its own.
LEMMA AcceptStep ==
  ASSUME IInv, NEW c \in Component, ~started, Name(c) \notin names, Accept(c)
  PROVE  IInv'
<1> USE DEF IInv, TypeOK, Accept, Answer
<1>1. /\ components' \in Seq(Component)
      /\ Len(components') = Len(components) + 1
      /\ components'[Len(components) + 1] = c
      /\ \A k \in 1 .. Len(components) : components'[k] = components[k]
  OBVIOUS
<1>2. TypeOK'
  BY <1>1 DEF Replies
<1>3. TableInv'
  <2>1. ASSUME NEW e \in Component
        PROVE  reply'[e] = "ok" <=> \E k \in 1 .. Len(components') : components'[k] = e
    <3>1. CASE e = c
      <4>1. reply'[e] = "ok"
        BY <3>1
      <4>2. Len(components) + 1 \in 1 .. Len(components')
        BY <1>1
      <4> QED
        BY <3>1, <4>1, <4>2, <1>1
    <3>2. CASE e # c
      <4>1. reply'[e] = reply[e]
        BY <3>2
      <4>2. ASSUME NEW k \in 1 .. Len(components'), components'[k] = e
            PROVE  k \in 1 .. Len(components) /\ components[k] = e
        BY <1>1, <3>2, <4>2
      <4>3. ASSUME NEW k \in 1 .. Len(components), components[k] = e
            PROVE  k \in 1 .. Len(components') /\ components'[k] = e
        BY <1>1, <4>3
      <4> QED
        BY <4>1, <4>2, <4>3 DEF TableInv
    <3> QED
      BY <3>1, <3>2
  <2>2. \A k \in 1 .. Len(components') : Name(components'[k]) \in names'
    BY <1>1 DEF TableInv
  <2>3. ASSUME NEW j \in 1 .. Len(components'), NEW k \in 1 .. Len(components'),
               Name(components'[j]) = Name(components'[k])
        PROVE  j = k
    BY <1>1, <2>3 DEF TableInv
  <2> QED
    BY <2>1, <2>2, <2>3 DEF TableInv
<1>4. DriveInv'
  BY DEF DriveInv, DrivenOnce
<1> QED
  BY <1>2, <1>3, <1>4

\* The invariant holds in every reachable state.
THEOREM Inductive == Spec => []IInv
<1>1. Init => IInv
  <2> SUFFICES ASSUME Init PROVE IInv
    OBVIOUS
  <2>1. components \in Seq(Component) /\ Len(components) = 0
    BY DEF Init
  <2>2. << >> \in Seq(Component)
    OBVIOUS
  <2>3. TypeOK
    BY <2>1, <2>2 DEF Init, TypeOK
  <2>4. TableInv /\ DriveInv
    BY <2>1 DEF Init, TableInv, DriveInv, DrivenOnce
  <2> QED
    BY <2>3, <2>4 DEF IInv
<1>2. IInv /\ [Next]_vars => IInv'
  <2> SUFFICES ASSUME IInv, [Next]_vars PROVE IInv'
    OBVIOUS
  <2>1. ASSUME NEW c \in Component, Register(c) PROVE IInv'
    <3>1. CASE ~started /\ Name(c) \notin names /\ Accept(c)
      BY <3>1, AcceptStep
    <3>2. CASE Refuse(c)
      <4>1. \E r \in Replies : r # "ok" /\ reply[c] = "none" /\ reply' = [reply EXCEPT ![c] = r]
        BY <3>2 DEF Refuse, Answer, Replies
      <4>2. \A e \in Component : reply'[e] = "ok" <=> reply[e] = "ok"
        BY <4>1 DEF IInv, TypeOK
      <4>3. TypeOK'
        BY <3>2, <4>1 DEF Refuse, IInv, TypeOK
      <4>4. TableInv' /\ DriveInv'
        BY <3>2, <4>2 DEF Refuse, IInv, TableInv, DriveInv, DrivenOnce
      <4> QED
        BY <4>3, <4>4 DEF IInv
    <3> QED
      BY <2>1, <3>1, <3>2 DEF Register
  <2>2. ASSUME NEW d \in Driver, markStarted(d) PROVE IInv'
    BY <2>2 DEF markStarted, IInv, TypeOK, TableInv, DriveInv, DrivenOnce
  <2>3. ASSUME NEW d \in Driver, buildItems(d) PROVE IInv'
    BY <2>3 DEF buildItems, IInv, TypeOK, TableInv, DriveInv, DrivenOnce
  <2>4. CASE UNCHANGED vars
    BY <2>4 DEF vars, IInv, TypeOK, TableInv, DriveInv, DrivenOnce
  <2> QED
    BY <2>1, <2>2, <2>3, <2>4 DEF Next, Answered
<1> QED
  BY <1>1, <1>2, PTL DEF Spec

\* For any components: Run drives exactly what Register accepted.
THEOREM AcceptedIsDriven == Spec => []AcceptedAreDriven
<1>1. IInv => AcceptedAreDriven
  <2> SUFFICES ASSUME IInv, NEW d \in Driver, NEW c \in Component, driver[d] = "running"
               PROVE  reply[c] = "ok" <=> \E k \in 1 .. Len(items[d]) : items[d][k] = c
    BY DEF AcceptedAreDriven
  <2>1. items[d] = components
    BY DEF IInv, DriveInv
  <2> QED
    BY <2>1 DEF IInv, TableInv
<1> QED
  BY <1>1, Inductive, PTL

\* For any components: those driven together have distinct names.
THEOREM NamesAreUnique == Spec => []DrivenHaveOwnNames
<1>1. IInv => DrivenHaveOwnNames
  <2> SUFFICES ASSUME IInv, NEW d \in Driver, driver[d] = "running"
               PROVE  \A j, k \in 1 .. Len(items[d]) :
                        Name(items[d][j]) = Name(items[d][k]) => j = k
    BY DEF DrivenHaveOwnNames
  <2>1. items[d] = components
    BY DEF IInv, DriveInv
  <2> QED
    BY <2>1 DEF IInv, TableInv
<1> QED
  BY <1>1, Inductive, PTL

\* For any callers: at most one drives the App.
THEOREM DriverIsUnique == Spec => []DrivenOnce
<1>1. IInv => DrivenOnce
  BY DEF IInv, DriveInv
<1> QED
  BY <1>1, Inductive, PTL
=============================================================================
