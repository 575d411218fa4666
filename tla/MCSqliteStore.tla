--------------------------- MODULE MCSqliteStore ---------------------------
(* SqliteStore for TLC. *)
EXTENDS SqliteStore
=============================================================================
