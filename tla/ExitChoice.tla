----------------------------- MODULE ExitChoice -----------------------------
(***************************************************************************)
(* What a withdrawal promises its investor and the other holders: the      *)
(* shares put in are either paid for or given back, never both, and once   *)
(* anything has been paid, or the return has begun, the choice is made.    *)
(***************************************************************************)
EXTENDS Naturals

CONSTANT Investor

VARIABLES free,    \* shares each investor still owns
          staked,  \* shares each has put into a withdrawal
          phase    \* of that withdrawal

choiceVars == <<free, staked, phase>>

ChoiceInit == /\ free \in [Investor -> Nat]
              /\ staked = [i \in Investor |-> 0]
              /\ phase = [i \in Investor |-> "idle"]

\* Deposits bring more shares at any time.
Earn(i) == /\ free' \in [Investor -> Nat]
           /\ free'[i] > free[i]
           /\ \A j \in Investor \ {i} : free'[j] = free[j]
           /\ UNCHANGED <<staked, phase>>

Begin(i) == /\ phase[i] = "idle"
            /\ \E n \in 1..free[i] : /\ staked' = [staked EXCEPT ![i] = n]
                                     /\ free' = [free EXCEPT ![i] = @ - n]
            /\ phase' = [phase EXCEPT ![i] = "undecided"]

Pay(i) == /\ phase[i] = "undecided"
          /\ phase' = [phase EXCEPT ![i] = "paying"]
          /\ UNCHANGED <<free, staked>>

Return(i) == /\ phase[i] = "undecided"
             /\ phase' = [phase EXCEPT ![i] = "returning"]
             /\ UNCHANGED <<free, staked>>

\* A withdrawal of nothing but idle USDC is paid by its last step.
Finish(i) == /\ phase[i] \in {"undecided", "paying"}
             /\ phase' = [phase EXCEPT ![i] = "idle"]
             /\ staked' = [staked EXCEPT ![i] = 0]
             /\ UNCHANGED free

Restore(i) == /\ phase[i] \in {"undecided", "returning"}
              /\ phase' = [phase EXCEPT ![i] = "idle"]
              /\ staked' = [staked EXCEPT ![i] = 0]
              /\ free' = [free EXCEPT ![i] = @ + staked[i]]

ChoiceNext ==
    \E i \in Investor : Earn(i) \/ Begin(i) \/ Pay(i) \/ Return(i) \/ Finish(i) \/ Restore(i)

ChoiceSpec == ChoiceInit /\ [][ChoiceNext]_choiceVars
=============================================================================
