----------------------------- MODULE LockService -----------------------------
(***************************************************************************)
(* What the lock table promises its clients: record locks under strict     *)
(* two-phase locking.  A transaction grows until it commits and gives its  *)
(* locks back only then; a request is answered at once or waits, and it    *)
(* waits only while another transaction holds or awaits the record; a      *)
(* waiting request is granted by a release, never against a lock that      *)
(* excludes it.  Lists, signals and lock objects do not appear.            *)
(***************************************************************************)
CONSTANTS Trx, Rec

VARIABLES phase,    \* phase[t]: "idle", "growing", "shrinking" or "over"
          held,     \* held[r][t]: the strongest mode t holds on r, or "none"
          want      \* want[t]: the request t waits for, as a set

vars == <<phase, held, want>>

Mode == {"S", "X"}

Compatible(h) ==
  \A t, u \in Trx : t # u /\ h[t] = "X" => h[u] = "none"

Init == /\ phase = [t \in Trx |-> "idle"]
        /\ held = [r \in Rec |-> [t \in Trx |-> "none"]]
        /\ want = [t \in Trx |-> {}]

Begin(t) == /\ phase[t] = "idle"
            /\ phase' = [phase EXCEPT ![t] = "growing"]
            /\ UNCHANGED <<held, want>>

\* The request is granted at once.
Lock(t, r, m) ==
  /\ phase[t] = "growing" /\ want[t] = {}
  /\ held' = [held EXCEPT ![r][t] = m]
  /\ held[r][t] # "X"
  /\ Compatible(held'[r])
  /\ UNCHANGED <<phase, want>>

\* The request has to wait for another transaction.
Wait(t, r, m) ==
  /\ phase[t] = "growing" /\ want[t] = {}
  /\ \E u \in Trx \ {t} : held[r][u] # "none" \/ \E w \in want[u] : w[1] = r
  /\ want' = [want EXCEPT ![t] = {<<r, m>>}]
  /\ UNCHANGED <<phase, held>>

\* A commit gives up no lock before its transaction has stopped growing.
Commit(t) ==
  /\ phase[t] = "growing" /\ want[t] = {}
  /\ \E p \in {"shrinking", "over"} :
       /\ p = "over" => \A r \in Rec : held[r][t] = "none"
       /\ phase' = [phase EXCEPT ![t] = p]
  /\ UNCHANGED <<held, want>>

\* One lock is released, and some of the requests that wait for its record
\* are granted, as many as are compatible with the locks that stay.
Release(t, r, grants) ==
  /\ phase[t] = "shrinking"
  /\ held[r][t] # "none"
  /\ \A u \in grants : \E w \in want[u] : w[1] = r
  /\ held' = [held EXCEPT ![r] =
                [u \in Trx |-> IF u = t THEN "none"
                               ELSE IF u \in grants THEN (CHOOSE w \in want[u] : TRUE)[2]
                               ELSE held[r][u]]]
  /\ Compatible(held'[r])
  /\ want' = [u \in Trx |-> IF u \in grants THEN {} ELSE want[u]]
  /\ UNCHANGED phase

Finish(t) == /\ phase[t] = "shrinking"
             /\ \A r \in Rec : held[r][t] = "none"
             /\ phase' = [phase EXCEPT ![t] = "over"]
             /\ UNCHANGED <<held, want>>

Next == \E t \in Trx :
          \/ Begin(t) \/ Commit(t) \/ Finish(t)
          \/ \E r \in Rec, m \in Mode : Lock(t, r, m) \/ Wait(t, r, m)
          \/ \E r \in Rec, grants \in SUBSET Trx : Release(t, r, grants)

Spec == Init /\ [][Next]_vars
=============================================================================
