---------------------------- MODULE MCAppServer ----------------------------
(* The app server for TLC.  Connections, keys and contents are interchangeable. *)
EXTENDS AppServer, TLC

ServerSymmetry == Permutations(Conn) \cup Permutations(Key)
                  \cup Permutations(Edit)
=============================================================================
