----------------------------- MODULE ThreadPool -----------------------------
(***************************************************************************)
(* What the thread functions promise to one director: each secondary core  *)
(* executes at most one thread at a time, a thread that was created runs   *)
(* once on one core until it succeeds or fails, and the director learns    *)
(* that a thread ended only after it did.  A core whose thread failed, or  *)
(* that was broken while it was idle, executes nothing any more.           *)
(***************************************************************************)
CONSTANTS Cores, Threads, NONE

VARIABLES job,     \* the thread that each core executes, or NONE
          broken,  \* the cores in ERROR
          outcome, \* of the last run of each thread
          live     \* the threads the director has not seen the end of

vars == <<job, broken, outcome, live>>

Init == /\ job = [c \in Cores |-> NONE]
        /\ broken = {}
        /\ outcome = [t \in Threads |-> "none"]
        /\ live = {}

Dispatch(t, c) == /\ t \notin live /\ \A b \in Cores : job[b] # t
                  /\ c \notin broken /\ job[c] = NONE
                  /\ job' = [job EXCEPT ![c] = t]
                  /\ outcome' = [outcome EXCEPT ![t] = "running"]
                  /\ live' = live \cup {t}
                  /\ UNCHANGED broken

Succeed(c) == /\ job[c] # NONE
              /\ outcome' = [outcome EXCEPT ![job[c]] = "success"]
              /\ job' = [job EXCEPT ![c] = NONE]
              /\ UNCHANGED <<broken, live>>

Fail(c) == /\ job[c] # NONE
           /\ outcome' = [outcome EXCEPT ![job[c]] = "failure"]
           /\ job' = [job EXCEPT ![c] = NONE]
           /\ broken' = broken \cup {c}
           /\ UNCHANGED live

Break(c) == /\ job[c] = NONE
            /\ broken' = broken \cup {c}
            /\ UNCHANGED <<job, outcome, live>>

Collect(t) == /\ t \in live /\ outcome[t] \in {"success", "failure"}
              /\ live' = live \ {t}
              /\ UNCHANGED <<job, broken, outcome>>

Next == \/ \E t \in Threads, c \in Cores : Dispatch(t, c)
        \/ \E c \in Cores : Succeed(c) \/ Fail(c) \/ Break(c)
        \/ \E t \in Threads : Collect(t)

Spec == Init /\ [][Next]_vars
=============================================================================
