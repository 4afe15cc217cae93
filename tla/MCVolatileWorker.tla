-------------------------- MODULE MCVolatileWorker --------------------------
EXTENDS VolatileWorker

CONSTANTS c1, c2

Env(exclusive, ttl, controls) ==
    [exclusive |-> exclusive, ttl |-> ttl, controls |-> controls]

\* Shared mutex with two control threads; the exclusive Writer with one.
PassEnvironments ==
    {Env(FALSE, FALSE, {c1, c2}), Env(FALSE, TRUE, {c1}),
     Env(TRUE, TRUE, {c1})}

\* The exclusive Writer, with one control thread or two.
QuiesceEnvironments == {Env(TRUE, FALSE, {c1}), Env(TRUE, FALSE, {c1, c2})}

\* One caller at a time.
SerialEnvironments == {Env(FALSE, FALSE, {c1})}
=============================================================================
