---------------------- MODULE MCPublicationTransaction ----------------------
(* A small instance of PublicationTransaction: the configurations supply the *)
(* identities of the two fixed directories and of successive staging         *)
(* directories.                                                              *)
EXTENDS PublicationTransaction
=============================================================================
