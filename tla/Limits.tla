------------------------------- MODULE Limits -------------------------------
(***************************************************************************)
(* Two limits a tier keeps to: the tables of a program (Dfa) and the steps *)
(* of an execution (LookBudget).  They share no state: `part' says which   *)
(* one a behaviour is of, and the other stays as it starts.                *)
(***************************************************************************)
EXTENDS Dfa

CONSTANTS MaxSteps, Costs, MaxStarts        \* LookBudget

VARIABLES part, stage, steps, before, remaining, starts

B == INSTANCE LookBudget WITH phase <- stage

ASSUME DfaAssumption == CodeSpace
ASSUME LookBudgetAssumption ==
    MaxSteps \in Nat \ {0} /\ Costs \subseteq Nat \ {0} /\ MaxStarts \in Nat

budget == <<stage, steps, before, remaining, starts>>

IdleDfa ==
    /\ prog = <<>> /\ cap = <<>>
    /\ fstates = {} /\ ft = <<>> /\ rstates = {} /\ rt = <<>>
    /\ phase = "forward"
    /\ call = <<>> /\ st = <<>> /\ pos = 0 /\ end = {} /\ start = {}

LimitsInit ==
    /\ part \in {"tables", "steps"}
    /\ IF part = "tables" THEN Init ELSE IdleDfa
    /\ B!Init

LimitsNext ==
    \/ part = "tables" /\ Next /\ UNCHANGED <<part, budget>>
    \/ part = "steps" /\ B!Next /\ UNCHANGED <<part, vars>>

LimitsSpec == LimitsInit /\ [][LimitsNext]_<<part, budget, vars>>
-----------------------------------------------------------------------------
(* The VM is lent what the limit leaves, and that is something             *)
(* (backtrack.zig:660 and 667).                                            *)
LendsWithin == B!LendsWithin

(* Lent, spent and repaid, the steps are one counter (backtrack.zig:660).  *)
OneCounter == B!OneCounter
=============================================================================
