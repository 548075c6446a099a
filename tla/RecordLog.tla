------------------------------ MODULE RecordLog ------------------------------
(***************************************************************************)
(* What the users of a state log may rely on, whatever happens to the      *)
(* processes that write it (src/state.rs): a submitted record becomes      *)
(* readable once or never, a readable record stays readable until it is    *)
(* older than the retention window or the user purges the log, and nothing *)
(* else is ever readable.                                                  *)
(***************************************************************************)
EXTENDS Integers

CONSTANTS
  Records,     \* the records ever written
  Retention,   \* RETENTION_MS
  MaxNow       \* bound: the clock stops here

VARIABLES
  now,         \* the wall clock
  stamp,       \* per record its ts_ms, NotYet before it is submitted
  pending,     \* the records submitted, neither readable nor dropped
  readable     \* the records a reader of the log finds

rvars == <<now, stamp, pending, readable>>

NotYet == -1

Init ==
  /\ now = 0
  /\ stamp = [r \in Records |-> NotYet]
  /\ pending = {}
  /\ readable = {}

Submit(r) ==
  /\ stamp[r] = NotYet
  /\ stamp' = [stamp EXCEPT ![r] = now]
  /\ pending' = pending \cup {r}
  /\ UNCHANGED <<now, readable>>

\* The line is whole in the file, with or without its newline.
Publish(r) ==
  /\ r \in pending
  /\ pending' = pending \ {r}
  /\ readable' = readable \cup {r}
  /\ UNCHANGED <<now, stamp>>

\* The writer died, failed or gave up waiting.
Discard(r) ==
  /\ r \in pending
  /\ pending' = pending \ {r}
  /\ UNCHANGED <<now, stamp, readable>>

Expire ==
  /\ \E old \in SUBSET readable :
       /\ \A r \in old : stamp[r] + Retention < now
       /\ readable' = readable \ old
  /\ UNCHANGED <<now, stamp, pending>>

Purge ==
  /\ readable' = {}
  /\ UNCHANGED <<now, stamp, pending>>

Tick ==
  /\ now < MaxNow
  /\ now' = now + 1
  /\ UNCHANGED <<stamp, pending, readable>>

Next ==
  \/ \E r \in Records : Submit(r) \/ Publish(r) \/ Discard(r)
  \/ Expire \/ Purge \/ Tick

Spec == Init /\ [][Next]_rvars
==============================================================================
