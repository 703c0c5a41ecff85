------------------------------ MODULE MCServer ------------------------------
(***************************************************************************)
(* Instances for checking what one process of the server carries on in the *)
(* background of its requests: keyed commands and the synchronisation with *)
(* the ERP.  They share nothing but the process, so a run explores them    *)
(* side by side: each initial state picks the part that moves.             *)
(***************************************************************************)
EXTENDS CommandReceipts, ErpSynchronisation, TLC

CONSTANTS p1, p2, A, Focuses

VARIABLE focus

MCSymmetry == Permutations(Attempts) \cup Permutations(Payloads)

serverVars == <<vars, erpVars, focus>>

\* The runs end or are interrupted, while nothing changes in the ERP; or the
\* catalogue changes while the server stays up.
ErpMoves(part) ==
  /\ focus = part
  /\ ErpNext
  /\ part = "runs" => changes' = 0 /\ targeted' = Resting
  /\ part = "catalogue" => server' = "up" /\ Len(runs') <= 1
  /\ UNCHANGED <<vars, focus>>

ServerInit ==
  /\ focus \in Focuses
  /\ Init
  /\ ErpInit
  /\ erp[1] = [project |-> p1, code |-> A]
  /\ catalogue[1].code = A
  /\ project = IF focus = "catalogue" THEN (p1 :> "linked" @@ p2 :> "inactive")
               ELSE (p1 :> "linked" @@ p2 :> "unlinked")

ServerNext ==
  \/ focus = "commands" /\ Next /\ UNCHANGED <<erpVars, focus>>
  \/ ErpMoves("runs") \/ ErpMoves("catalogue")

ServerSpec ==
  /\ ServerInit /\ [][ServerNext]_serverVars
  /\ \A a \in Attempts : WF_vars(Progress(a))
  /\ WF_erpVars(focus = "runs" /\ Submit)
  /\ WF_erpVars(focus = "runs" /\ Worker)
  /\ WF_erpVars(focus = "runs" /\ Exit)
  /\ WF_erpVars(focus = "runs" /\ Restart)

\* Every variable of both parts has its type.
ServerTypeOK == TypeOK /\ ErpTypeOK

\* A run of the synchronisation that was launched ends, through stops and
\* crashes (EveryRunEnds, asked where runs move).
RunsEnd == focus = "runs" => EveryRunEnds
=============================================================================
