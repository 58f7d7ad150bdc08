--------------------------- MODULE MCAppCommands ---------------------------
(***************************************************************************)
(* Four parts behind the app's commands that share no state: the contact   *)
(* listing, the signing session, the paths of adverts and what is sent.  A *)
(* behaviour exercises one of them, chosen at the start; the others stay   *)
(* as they are, so that the states of the run add up and do not multiply.  *)
(***************************************************************************)
EXTENDS ContactSync, SignSession, AdvertPaths, Sending

VARIABLE focus

allVars == <<focus, syncVars, signVars, pathVars, sendVars>>

\* One of the settings, for the behaviours that send nothing.
FactoryRules ==
  /\ telemetry_mode = [k \in TelemetryKinds |-> "deny"]
  /\ contactFlags = [c \in Contacts |-> {}]
  /\ ~advert_loc /\ ~repeatEn /\ default_scope_key = NullKey

Init ==
  /\ focus \in {"contacts", "signing", "adverts", "sending"}
  /\ SyncInit /\ SignInit /\ PathInit /\ SendInit
  /\ focus # "sending" => FactoryRules

Next ==
  /\ UNCHANGED focus
  /\ \/ /\ focus = "contacts" /\ SyncNextStep
        /\ UNCHANGED <<signVars, pathVars, sendVars>>
     \/ /\ focus = "signing" /\ SignNext
        /\ UNCHANGED <<syncVars, pathVars, sendVars>>
     \/ /\ focus = "adverts" /\ PathNext
        /\ UNCHANGED <<syncVars, signVars, sendVars>>
     \/ /\ focus = "sending" /\ SendNext
        /\ UNCHANGED <<syncVars, signVars, pathVars>>

\* The super-loop comes round for ever, so a listing under way goes on.
Spec == Init /\ [][Next]_allVars /\ WF_syncVars(IterStep)

(* The tables, buffers and histories of the four parts hold what they may. *)
TypesOK == SyncTypesOK /\ SignTypesOK /\ PathTypesOK /\ SendTypesOK

=============================================================================
