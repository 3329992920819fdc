-------------------------- MODULE MCSchemaMigrations --------------------------
(* Two places to run the script from, with all files or the first ones only. *)
EXTENDS SchemaMigrations

CONSTANTS laptop, server

TwoRunners == {laptop, server}
OldOrNew   == {2, 3, 4}
=============================================================================
