-------------------------- MODULE MCSchemaMigration --------------------------
(* SchemaMigration on small instances.  Two motor columns stand for the       *)
(* twelve: one that a partial table has and one that it lacks are enough for  *)
(* every branch of the loop, at the first and at the last iteration.          *)
EXTENDS SchemaMigration

CoreColumns  == {"received_at_ns", "raw"}
IndexColumns == {"received_at_ns"}
MotorOrder   == <<"motor1_id", "motor2_id">>

\* No table yet, a table without a version (complete or partial, the comment at
\* db_sqlite.c:162), a version 1 table, one of version 2 and one of the future.
SomeFiles ==
    LET f(v, cols, t, i, w) == [version |-> v, columns |-> cols, table |-> t,
                                indexed |-> i, wal |-> w]
    IN  {f(0, {}, FALSE, FALSE, FALSE), f(2, AllColumns, TRUE, TRUE, TRUE),
         f(3, AllColumns, TRUE, TRUE, TRUE)}
        \cup {f(0, cols, TRUE, FALSE, FALSE) : cols \in SUBSET AllColumns}
        \cup {f(1, Core \cup cols, TRUE, TRUE, w) :
                 cols \in SUBSET MotorColumns, w \in BOOLEAN}
=============================================================================
