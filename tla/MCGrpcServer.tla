---------------------------- MODULE MCGrpcServer ----------------------------
(* Bounds for TLC: the instance of GrpcServer its runs explore. *)
EXTENDS GrpcServer
=============================================================================
