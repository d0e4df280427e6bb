------------------------------- MODULE MCData -------------------------------
(* The site's data for TLC: the parts of a site that share no state with the  *)
(* data tables' schema, checked one at a time in one run.  A behaviour picks   *)
(* an area at the start and only that area moves; the rest stays as it began.  *)
(* Accounts and cached rows do not interact, so there is a unique index where  *)
(* there are rows, and none where there are none.                              *)
EXTENDS Content, PublicApi, Payments, TLC

VARIABLE area

Areas == {"content", "events", "api", "payments"}

\* Writers are alike: no definition tells two of them apart.
AlikeWriters == Permutations(Writers)

dataVars == <<area, contentVars, apiVars, payVars>>

DataInit ==
    /\ area \in Areas
    /\ ContentInit /\ ApiInit /\ PaymentsInit
    /\ area # "content" => row["page"] = "none"
    /\ area \notin {"events", "api"} =>
          action = NoAction /\ \A h \in Hooks : hook[h] = NoHook
    /\ IF area = "api" THEN unique <=> live # {} ELSE live = {} /\ ~unique
    /\ area # "payments" => supported

\* The webhooks and actions change in the area "events"; in "api" only the
\* requests, the deliveries and the executions move.
DataNext ==
    /\ UNCHANGED area
    /\ \/ /\ area = "content" /\ ContentNext
          /\ UNCHANGED <<apiVars, payVars>>
       \/ /\ area = "events" /\ EventsNext
          /\ UNCHANGED <<contentVars, requestVars, payVars>>
       \/ /\ area = "api" /\ ApiNext /\ changes' = changes
          /\ UNCHANGED <<contentVars, payVars>>
       \/ /\ area = "payments" /\ PaymentsNext
          /\ UNCHANGED <<contentVars, apiVars>>

DataSpec == DataInit /\ [][DataNext]_dataVars

\* Every variable of every part keeps its type, whatever interleaving of its
\* operations, failures and crashes it goes through.
DataTypeOK ==
    /\ area \in Areas
    /\ ContentTypeOK /\ ApiTypeOK /\ PaymentsTypeOK

=============================================================================
