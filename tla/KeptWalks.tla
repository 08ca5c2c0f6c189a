------------------------------ MODULE KeptWalks ------------------------------
(***************************************************************************)
(* KeptAnswers observed: how often each answer is computed for each state, *)
(* and whether the store has written itself.  The observer takes part in   *)
(* every step and restricts none.                                          *)
(***************************************************************************)
EXTENDS KeptAnswers

VARIABLES
    computed,   \* how often each kind was computed, by position in history,
                \* until this store writes
    wrote       \* this store has committed a write, or ended a batch

watchVars == <<vars, computed, wrote>>

WatchInit ==
    /\ Init
    /\ computed = [k \in Kinds |-> [i \in 1..MaxCommits |-> 0]]
    /\ wrote = FALSE

\* A thread computes an answer that can be kept in this step.
Computes(t) ==
    /\ at[t] = "computing" /\ at'[t] # "computing"
    /\ Answer(asking[t], Reads(t)) # Unreadable

\* A write of this store has been made, or a batch tried: what is kept moves or is dropped.
Touches == stage' \in {"committed", "dropping"}

\* What the observer notes of a step.
CountsNext ==
    /\ wrote' = (wrote \/ Touches)
    /\ computed' = [k \in Kinds |-> [i \in 1..MaxCommits |->
            IF wrote' THEN 0
            ELSE IF \E t \in Threads : Computes(t) /\ asking[t] = k /\ pinned[t] = i
            THEN computed[k][i] + 1 ELSE computed[k][i]]]

WatchNext == Next /\ CountsNext

\* The fairness of the threads.
WatchSpec ==
    /\ WatchInit /\ [][WatchNext]_watchVars
    /\ \A t \in Threads :
          WF_vars(Goes(t)) /\ SF_vars(TakeLock(t)) /\ SF_vars(Accept(t) \/ Reject(t))

\* As long as this store has not written itself, an answer computed is kept
\* unless a newer state's answer is kept already: what is kept is replaced by
\* a newer state's answer or dropped.
NewerStays ==
    [][~wrote' => \A k \in Kinds :
            kept'[k].label # 0 => kept'[k].label >= kept[k].label]_watchVars

\* Until then, and while a state is the newest, each answer that can be kept
\* is computed for it once, however many snapshots of it ask at once: a commit
\* from outside costs one walk, and asking again none.
NewestComputedOnce ==
    [][~wrote' => \A k \in Kinds :
            Answer(k, history[Now]) # Unreadable => computed'[k][Now] <= 1]_watchVars
=============================================================================
