-------------------------- MODULE ProviderConfig ---------------------------
(***************************************************************************)
(* The one LLM provider of the system (app/services/provider_config.py):   *)
(* the row that administrators PUT, DELETE and GET in sessions of their    *)
(* own, the alert about a missing key, and what the paths to the provider  *)
(* make of the row: orchestrated calls (llm_orchestrator.py), direct calls *)
(* (llm/adapter.py), calls that write documents (apply_json.py), the test  *)
(* of an administrator and the listing of models.                          *)
(***************************************************************************)
EXTENDS Integers, Sequences, FiniteSets

CONSTANTS
  Clients,    \* requests that read or write the row, each once
  Puts,       \* bodies of PUT: [provider, model, key, base]
  EnvKeys,    \* the providers whose key is in the environment
  EnvProvider,
  NoConfig, Unset

(* KNOWN_PROVIDERS, with names that keep which models recur                *)
Catalog ==
  [anthropic  |-> [model |-> "sonnet",     static |-> <<"opus", "haiku">>],
   openai     |-> [model |-> "gpt",        static |-> <<"gpt-mini", "gpt">>],
   nvidia_nim |-> [model |-> "llama-nim",  static |-> <<>>],
   lm_studio  |-> [model |-> "local",      static |-> <<>>],
   ollama     |-> [model |-> "llama",      static |-> <<>>],
   gemini     |-> [model |-> "flash",      static |-> <<"pro", "flash">>],
   custom     |-> [model |-> "",           static |-> <<>>]]
Providers == DOMAIN Catalog
StaticListing == {"anthropic", "gemini"}
Local == {"lm_studio", "ollama"}   \* _NO_KEY_PROVIDERS

Columns == {"provider", "model", "key", "base"}
Empty == [c \in Columns |-> Unset]

(* The key of a body is left out, the mask, empty or typed.                *)
ASSUME ProviderAssumption ==
  /\ IsFiniteSet(Clients)
  /\ EnvProvider \in Providers /\ EnvKeys \subseteq {"anthropic", "openai", "nvidia_nim", "gemini"}
  /\ \A put \in Puts : DOMAIN put = Columns /\ put.key \in {Unset, "masked", "", "typed"}

VARIABLES
  config,    \* table global_provider_config: NoConfig or [provider, model, key, base],
             \* the key being the name of the provider it was typed for
  client,    \* [Clients -> [at, and of a write its body op and the row it read]]
  unread,    \* unread no_provider_alert notifications of the first administrator
  crowd,     \* history: the most clients that were about to raise the alert at once
  kept,      \* history: a PUT changed the provider and left the key
  raced      \* history: a write was based on a row that had changed

providerVars == <<config, client, unread, crowd, kept, raced>>

-----------------------------------------------------------------------------
(* What the paths make of the row                                          *)

Configured(row) == row # NoConfig /\ row.provider # Unset
ModelOf(row) == IF row.model = Unset THEN Catalog[row.provider].model ELSE row.model

(* get_active_provider_config: without a row, the environment names a      *)
(* provider and no model.                                                  *)
ActiveConfig(row) ==
  IF Configured(row) THEN [row EXCEPT !.model = ModelOf(row)]
  ELSE [Empty EXCEPT !.provider = EnvProvider]

(* get_global_provider_config_out, the part about provider and model       *)
ShownModel(row) == IF Configured(row) THEN ModelOf(row) ELSE Catalog[EnvProvider].model
NeedsKey(row) == ~Configured(row) \/ row.key = Unset

(* The other static models.  The catalog names each model once, so leaving *)
(* out the active one is leaving out at most one element.                  *)
Without(list, m) ==
  IF \E k \in DOMAIN list : list[k] = m
  THEN LET k == CHOOSE k \in DOMAIN list : list[k] = m
       IN SubSeq(list, 1, k - 1) \o SubSeq(list, k + 1, Len(list))
  ELSE list

(* _build_execution_plan                                                   *)
ExecutionPlan(active) ==
  <<active.model>> \o Without(Catalog[active.provider].static, active.model)

(* Mutant of Orchestrated: LM Studio needs a key too.                      *)
OrchestratedWithKey(active) ==
  active.key # Unset \/ active.provider \in (EnvKeys \ {"gemini"}) \union {"ollama"}

(* _call_llm: gemini's key is not among the environment's, custom needs a  *)
(* key and no base.                                                        *)
Orchestrated(active) ==
  \/ active.key # Unset
  \/ active.provider \in EnvKeys \ {"gemini"}
  \/ active.provider \in Local

(* llm_completion: a custom provider needs a base and no key.              *)
Direct(active) ==
  /\ active.key # Unset \/ active.provider \in EnvKeys \union {"lm_studio", "custom"}
  /\ active.provider = "custom" => active.base # Unset

(* _llm_json passes no base on.                                            *)
Writes(active) == Direct([active EXCEPT !.base = Unset])

(* POST /providers/test of the saved configuration, up to the call         *)
Tested(active) ==
  /\ active.key # Unset \/ active.provider \in EnvKeys \union Local
  /\ Direct(active)

(* list_provider_models and _resolve_credential for the configured provider *)
Listable(active) ==
  \/ active.provider \in StaticListing
  \/ /\ active.provider \in Local \union {"custom"} => active.base # Unset
     /\ active.provider \in Local \/ active.key # Unset \/ active.provider \in EnvKeys

-----------------------------------------------------------------------------
(* The row and its sessions                                                *)

(* set_global_provider_config: a masked key or none keeps the stored one,  *)
(* an empty string clears a key or a model; a base cannot be cleared, since *)
(* the route turns an empty one into None.                                 *)
Stored(row) == IF row = NoConfig THEN Empty ELSE row
KeyLeft(put) == put.key \in {Unset, "masked"}
MergedKey(row, put) ==
  IF KeyLeft(put) THEN Stored(row).key ELSE IF put.key = "" THEN Unset ELSE put.provider
Merged(row, put) ==
  LET old == Stored(row)
  IN [provider |-> put.provider,
      model |-> CASE put.model = Unset -> old.model [] put.model = "" -> Unset [] OTHER -> put.model,
      key |-> MergedKey(row, put),
      base |-> IF put.base = Unset THEN old.base ELSE put.base]

(* The UPDATE of a session: the columns it set to something else than what *)
(* it read.                                                                *)
Updated(row, read, new) == [c \in Columns |-> IF new[c] = read[c] THEN row[c] ELSE new[c]]

Gone(k) == client' = [client EXCEPT ![k] = [at |-> "gone"]]

(* What a request shows at its end matters by whether it lacks a key.      *)
Shows(k, row) == client' = [client EXCEPT ![k] = [at |-> "showing", keyless |-> NeedsKey(row)]]

(* The SELECT of a request; a PUT of an unknown provider is refused before. *)
Writing(k, op) == client' = [client EXCEPT ![k] = [at |-> "writing", op |-> op, row |-> config]]
LoadConfig(k) ==
  /\ client[k].at = "new"
  /\ \/ Shows(k, config)
     \/ Writing(k, [delete |-> TRUE])
     \/ \E put \in Puts : IF put.provider \in Providers THEN Writing(k, put) ELSE Gone(k)
  /\ UNCHANGED <<config, unread, crowd, kept, raced>>

(* The flush and the commit of a PUT or a DELETE; of two PUTs that found   *)
(* no row the second fails on the primary key.  What is shown afterwards   *)
(* is the row as the session has it.                                       *)
CommitConfig(k) ==
  LET put == client[k].op
      read == client[k].row
  IN /\ client[k].at = "writing"
     /\ IF "delete" \notin DOMAIN put
        THEN IF read = NoConfig
             THEN IF config # NoConfig THEN Gone(k) /\ UNCHANGED <<config, kept, raced>>
                  ELSE /\ config' = Merged(NoConfig, put) /\ Shows(k, config')
                       /\ UNCHANGED <<kept, raced>>
             ELSE /\ config' = [Updated(config, read, Merged(read, put)) EXCEPT
                                  !.key = IF put.key = "typed" THEN put.provider ELSE @]
                  /\ Shows(k, config')
                  /\ kept' = (kept \/ (KeyLeft(put) /\ read.provider # put.provider))
                  /\ raced' = (raced \/ config # read)
        ELSE IF read = NoConfig THEN Shows(k, read) /\ UNCHANGED <<config, kept, raced>>
             ELSE /\ config' = Updated(config, read, Empty) /\ Shows(k, Empty)
                  /\ raced' = (raced \/ config # read) /\ UNCHANGED kept
     /\ UNCHANGED <<unread, crowd>>

(* _notify_admin_no_provider: an unread alert is looked for, the new one   *)
(* is committed with the request, after an e-mail.                         *)
Alerting == {k \in Clients : client[k].at = "alerting"}
AlertCheck(k) ==
  /\ client[k].at = "showing"
  /\ IF client[k].keyless /\ unread = 0
     THEN /\ client' = [client EXCEPT ![k] = [at |-> "alerting"]]
          /\ crowd' = IF Cardinality(Alerting) < crowd THEN crowd ELSE Cardinality(Alerting) + 1
     ELSE Gone(k) /\ UNCHANGED crowd
  /\ UNCHANGED <<config, unread, kept, raced>>

AlertCommit(k) ==
  /\ client[k].at = "alerting" /\ unread' = unread + 1 /\ Gone(k)
  /\ UNCHANGED <<config, crowd, kept, raced>>

(* The administrator reads notifications, one or all.                      *)
ReadAlerts == (\E n \in 0..(unread - 1) : unread' = n) /\ UNCHANGED <<config, client, crowd, kept, raced>>

ProviderInit ==
  /\ config = NoConfig
  /\ client = [k \in Clients |-> [at |-> "new"]]
  /\ unread = 0 /\ crowd = 0 /\ kept = FALSE /\ raced = FALSE

ProviderNext ==
  \/ \E k \in Clients : LoadConfig(k) \/ CommitConfig(k) \/ AlertCheck(k) \/ AlertCommit(k)
  \/ ReadAlerts

ProviderSpec == ProviderInit /\ [][ProviderNext]_providerVars

-----------------------------------------------------------------------------
(* Properties                                                              *)

(* The row has the columns of the table, and at most one alert per client. *)
ProviderTypeOK ==
  /\ config = NoConfig \/ (DOMAIN config = Columns /\ config.provider \in Providers \union {Unset}
                           /\ config.key \in Providers \union {Unset})
  /\ unread \in 0..Cardinality(Clients) /\ crowd \in 0..Cardinality(Clients)

(* The key was typed for the provider it is used with, unless a PUT changed *)
(* the provider and left the key, or writes raced.                         *)
KeyIsTheProviders ==
  Configured(config) /\ config.key \notin {Unset, config.provider} => kept \/ raced

(* A configured model is shown to every user as what orchestrated calls try *)
(* first, and their plan repeats no model.                                 *)
PlanStartsAsShown ==
  LET plan == ExecutionPlan(ActiveConfig(config))
  IN /\ Configured(config) => Head(plan) = ShownModel(config)
     /\ \A i, j \in DOMAIN plan : plan[i] = plan[j] => i = j

(* A configuration that passes the test is accepted by orchestrated calls, *)
(* but for gemini with the key of the environment, by the calls that write *)
(* documents, but for a custom provider, and by the listing of models, but *)
(* for a local provider without a base.                                    *)
TestIsAccepted ==
  LET active == ActiveConfig(config)
  IN Tested(active) =>
       /\ Orchestrated(active) \/ (active.provider = "gemini" /\ active.key = Unset)
       /\ Writes(active) \/ active.provider = "custom"
       /\ Listable(active) \/ (active.provider \in Local /\ active.base = Unset)

(* Unread alerts are at most as many as the requests that raised them      *)
(* together.                                                               *)
AlertsAreFew == unread + Cardinality(Alerting) <= crowd

(* One row, written by racing requests, serves every path to the provider, *)
(* and the paths agree on it: its key, its model, what the test says of it, *)
(* and the alert about it.                                                 *)
ConfigurationIsCoherent == KeyIsTheProviders /\ PlanStartsAsShown /\ TestIsAccepted /\ AlertsAreFew

(* "Verify that the *saved* global provider config works": what passes the *)
(* test is accepted by every path.                                         *)
TestSpeaksForCalls ==
  LET active == ActiveConfig(config) IN Tested(active) => Orchestrated(active) /\ Writes(active)

(* "Shows which provider/model the system currently uses for all LLM       *)
(* calls": the shown model is the first one tried.                         *)
ShownIsUsed == Head(ExecutionPlan(ActiveConfig(config))) = ShownModel(config)

(* "skips if an unread no_provider_alert notification already exists".     *)
OneAlert == unread <= 1
=============================================================================
