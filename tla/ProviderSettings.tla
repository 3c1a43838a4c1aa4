--------------------------- MODULE ProviderSettings ---------------------------
(***************************************************************************)
(* The settings of the model connections and what is built from them.      *)
(* The registry of LLM connections (services/llm_settings_service.py) is a *)
(* file that every request reads, changes and writes as a whole;           *)
(* create_gateway (llm/factory.py) resolves the chain of a task from it and*)
(* a call fails over along the chain (llm/fallback.py).  The image and     *)
(* video settings (services/image_settings_service.py) are such a file too;*)
(* providers/registry.py caches the providers built from it.  Requests run *)
(* in threads, calls of the models on the event loop.                      *)
(***************************************************************************)
EXTENDS Integers, Sequences, FiniteSets, SequencesExt

CONSTANTS Added,      \* ids of the connections users create
          Conns,      \* contents of a connection: mode, base_url, api_key, model
          Env,        \* what the environment configures, one of Conns
          Tasks,      \* LLM_BINDABLE_TASKS
          Nobody,
          Torn,       \* a file that is absent, empty or not JSON: as if not there
          Threads,    \* request threads, and the worker
          MaxOps, MaxCrashes  \* bounds: requests and calls, crashes

ASSUME SettingsAssumption ==
  /\ Env \in Conns /\ Nobody \notin Conns \cup Added /\ "default" \notin Added
  /\ MaxOps \in Nat /\ MaxCrashes \in Nat

VARIABLES registry,   \* llm_profiles.json: a registry, or Torn
          made,       \* ids given out
          gateways,   \* _gateways: pairs of a key and the content it was built of
          call,       \* the call of a model that runs
          images,     \* image.json: image and video settings, or Torn
          imageProvider, videoProvider,  \* the cached providers: what they were built of
          req,        \* what each thread is doing
          ops, crashes, \* counters of bounded events
          met         \* history: a provider was built while its settings were changed

llm == <<registry, made, gateways, call>>
media == <<images, imageProvider, videoProvider>>
settingsVars == <<llm, media, req, ops, crashes, met>>

Ids == {"default"} \cup Added
Idle == [op |-> "idle"]
NoCall == [task |-> Nobody, chain |-> <<>>, at |-> 0, used |-> Nobody, flows |-> FALSE]

(* _seed_state: the view of a registry that is not there.                  *)
Seed == [profiles |-> [i \in Ids |-> IF i = "default" THEN Env ELSE Nobody],
         active |-> "default",
         bind |-> [k \in Tasks |-> Nobody],
         back |-> [k \in Tasks |-> <<>>]]
EnvImages == [image |-> Env, video |-> Env]

Loaded == IF registry = Torn THEN Seed ELSE registry
ImageConfig == IF images = Torn THEN EnvImages ELSE images
Known(s) == {i \in Ids : s.profiles[i] # Nobody}

SettingsInit ==
  /\ registry = Torn /\ made = {}
  /\ gateways = {} /\ call = NoCall
  /\ images = Torn /\ imageProvider = Nobody /\ videoProvider = Nobody
  /\ req = [t \in Threads |-> Idle]
  /\ ops = 0 /\ crashes = 0 /\ met = FALSE

At(t, op) == req[t].op = op
Goes(t, r) == req' = [req EXCEPT ![t] = r] /\ UNCHANGED ops
Counts == ops < MaxOps /\ ops' = ops + 1

-----------------------------------------------------------------------------
(* Requests that change the registry: what is to be saved is computed from *)
(* what has been loaded.                                                   *)

Saves(t, s) ==
  /\ req[t] = Idle /\ Counts
  /\ req' = [req EXCEPT ![t] = [op |-> "open", file |-> "llm", new |-> s, over |-> FALSE]]
  /\ UNCHANGED <<registry, gateways, call, media, crashes, met>>

CreateProfile(t, i, x) ==
  /\ i \in Added \ made /\ made' = made \cup {i}
  /\ Saves(t, [Loaded EXCEPT !.profiles[i] = x])

UpdateProfile(t, i, x) ==
  /\ i \in Known(Loaded)
  /\ Saves(t, [Loaded EXCEPT !.profiles[i] = x])
  /\ UNCHANGED made

(* update_llm_config: the active connection, as loaded at first.           *)
UpdateLlmConfig(t, x) == UpdateProfile(t, Loaded.active, x)

ActivateProfile(t, i) ==
  /\ i \in Known(Loaded)
  /\ Saves(t, [Loaded EXCEPT !.active = i])
  /\ UNCHANGED made

WithoutProfileMutant(s, i) == [s EXCEPT !.profiles[i] = Nobody]  \* mutant: the references stay

(* A chain names a connection once (set_task_fallbacks).                   *)
Without(chain, i) ==
  IF i \in ToSet(chain) THEN RemoveAt(chain, CHOOSE n \in DOMAIN chain : chain[n] = i) ELSE chain

WithoutProfile(s, i) ==
  [profiles |-> [s.profiles EXCEPT ![i] = Nobody],
   active |-> s.active,
   bind |-> [k \in Tasks |-> IF s.bind[k] = i THEN Nobody ELSE s.bind[k]],
   back |-> [k \in Tasks |-> Without(s.back[k], i)]]

DeleteProfile(t, i) ==
  /\ i \in Known(Loaded) /\ i # Loaded.active
  /\ Saves(t, WithoutProfile(Loaded, i))
  /\ UNCHANGED made

SetTaskBinding(t, k, i) ==
  /\ i = Nobody \/ i \in Known(Loaded)
  /\ Saves(t, [Loaded EXCEPT !.bind[k] = i])
  /\ UNCHANGED made

SetTaskFallbacks(t, k, chain) ==
  /\ ToSet(chain) \subseteq Known(Loaded)
  /\ Saves(t, [Loaded EXCEPT !.back[k] = chain])
  /\ UNCHANGED made

-----------------------------------------------------------------------------
(* Writing a file: it is opened, which empties it, and written; a file that*)
(* another thread has written since it was opened may keep the tail of the *)
(* longer text.  Then the caches are emptied.                              *)

OpensFile(t) ==
  /\ At(t, "open")
  /\ IF req[t].file = "llm" THEN registry' = Torn /\ UNCHANGED images
                            ELSE images' = Torn /\ UNCHANGED registry
  /\ Goes(t, [req[t] EXCEPT !.op = "write"])
  /\ UNCHANGED <<made, gateways, call, imageProvider, videoProvider, crashes, met>>

WritesFile(t) ==
  LET r == req[t]
      open == {u \in Threads \ {t} : At(u, "write") /\ req[u].file = r.file}
  IN /\ At(t, "write")
     /\ \E text \in {r.new} \cup (IF r.over THEN {Torn} ELSE {}) :
          IF r.file = "llm" THEN registry' = text /\ UNCHANGED images
                            ELSE images' = text /\ UNCHANGED registry
     /\ req' = [u \in Threads |->
                  CASE u = t -> [r EXCEPT !.op = "reset"]
                    [] u \in open -> [req[u] EXCEPT !.over = TRUE]
                    [] OTHER -> req[u]]
     /\ UNCHANGED <<made, gateways, call, imageProvider, videoProvider, ops, crashes, met>>

ResetGateway(t) ==
  /\ At(t, "reset") /\ req[t].file = "llm"
  /\ gateways' = {}
  /\ Goes(t, Idle)
  /\ UNCHANGED <<registry, made, call, media, crashes, met>>

ResetImageProvidersMutant(t) ==  \* mutant: only the video providers are reset
  /\ At(t, "reset") /\ req[t].file = "image"
  /\ videoProvider' = Nobody
  /\ Goes(t, Idle)
  /\ UNCHANGED <<llm, images, imageProvider, crashes, met>>

(* The video providers are not reset.                                      *)
ResetImageProviders(t) ==
  /\ At(t, "reset") /\ req[t].file = "image"
  /\ imageProvider' = Nobody
  /\ Goes(t, Idle)
  /\ UNCHANGED <<llm, images, videoProvider, crashes, met>>

-----------------------------------------------------------------------------
(* Calls.  The chain of a task: the connection it is bound to, or the      *)
(* active one, then its fallbacks.  (The active connection is always known,*)
(* RegistryIsConsistent; so the chain is never empty.)                     *)

First(s, k) == IF k # "default" /\ s.bind[k] # Nobody THEN s.bind[k] ELSE s.active

Chain(s, k) ==
  LET back == IF k = "default" THEN <<>> ELSE Without(s.back[k], First(s, k))
      ids == SelectSeq(<<First(s, k)>> \o back, LAMBDA i : i \in Known(s))
  IN [n \in DOMAIN ids |-> [id |-> ids[n], conn |-> s.profiles[ids[n]]]]

KeyMutant(candidate) == candidate.id  \* mutant: keyed by the id of the connection

Key(candidate) == candidate.conn

(* _get_or_build: the gateway of a key, or a new one.                      *)
Gateway(candidate) ==
  IF \E g \in gateways : g.key = Key(candidate)
  THEN CHOOSE g \in gateways : g.key = Key(candidate)
  ELSE [key |-> Key(candidate), built |-> candidate.conn]

Uses(c, n) ==
  LET g == Gateway(c.chain[n]) IN
  /\ gateways' = gateways \cup {g}
  /\ call' = [c EXCEPT !.at = n, !.used = g.built]

CreateGateway(k) ==
  /\ call = NoCall /\ Counts
  /\ Uses([task |-> k, chain |-> Chain(Loaded, k), at |-> 0, used |-> Nobody, flows |-> FALSE], 1)
  /\ UNCHANGED <<registry, made, media, req, crashes, met>>

(* A candidate fails: the next one is built and tried.  Not once a stream  *)
(* has given out its first chunk: a later failure ends the call.           *)
FailsOver ==
  /\ call # NoCall /\ ~call.flows /\ call.at < Len(call.chain)
  /\ Uses(call, call.at + 1)
  /\ UNCHANGED <<registry, made, media, req, ops, crashes, met>>

FirstChunk ==
  /\ call # NoCall /\ ~call.flows
  /\ call' = [call EXCEPT !.flows = TRUE]
  /\ UNCHANGED <<registry, made, gateways, media, req, ops, crashes, met>>

(* The call is answered, or its last candidate has failed.                 *)
CallEnds ==
  /\ call # NoCall
  /\ call' = NoCall
  /\ UNCHANGED <<registry, made, gateways, media, req, ops, crashes, met>>

-----------------------------------------------------------------------------
(* Image and video settings, and the providers that read them when they are*)
(* built: read and store are two steps of a thread.                        *)

Updating == {t \in Threads : At(t, "open") \/ At(t, "write") \/ At(t, "reset")}
Building == {t \in Threads : At(t, "store")}
OfImages == {t \in Updating : req[t].file = "image"}

UpdateImageConfig(t, field, x) ==
  /\ req[t] = Idle /\ Counts
  /\ req' = [req EXCEPT ![t] = [op |-> "open", file |-> "image", over |-> FALSE,
                                new |-> [ImageConfig EXCEPT ![field] = x]]]
  /\ met' = (met \/ Building # {})
  /\ UNCHANGED <<llm, media, crashes>>

BuildsProvider(t, field) ==
  /\ req[t] = Idle /\ Counts
  /\ IF field = "image" THEN imageProvider = Nobody ELSE videoProvider = Nobody
  /\ req' = [req EXCEPT ![t] = [op |-> "store", field |-> field, built |-> ImageConfig[field]]]
  /\ met' = (met \/ OfImages # {})
  /\ UNCHANGED <<llm, media, crashes>>

StoresProvider(t) ==
  /\ At(t, "store")
  /\ IF req[t].field = "image"
     THEN imageProvider' = req[t].built /\ UNCHANGED videoProvider
     ELSE videoProvider' = req[t].built /\ UNCHANGED imageProvider
  /\ Goes(t, Idle)
  /\ UNCHANGED <<llm, images, crashes, met>>

-----------------------------------------------------------------------------
Crash ==
  /\ crashes < MaxCrashes /\ crashes' = crashes + 1
  /\ gateways' = {} /\ call' = NoCall
  /\ imageProvider' = Nobody /\ videoProvider' = Nobody
  /\ req' = [t \in Threads |-> Idle]
  /\ UNCHANGED <<registry, made, images, ops, met>>

Chains == {s \in BoundedSeq(Ids, Cardinality(Ids)) : IsInjective(s)}

SettingsNext ==
  \/ FailsOver \/ FirstChunk \/ CallEnds \/ Crash
  \/ \E k \in Tasks \cup {"default"} : CreateGateway(k)
  \/ \E t \in Threads :
       \/ \E i \in Ids, x \in Conns : CreateProfile(t, i, x) \/ UpdateProfile(t, i, x)
       \/ \E x \in Conns : UpdateLlmConfig(t, x)
       \/ \E i \in Ids : ActivateProfile(t, i) \/ DeleteProfile(t, i)
       \/ \E k \in Tasks, i \in Ids \cup {Nobody} : SetTaskBinding(t, k, i)
       \/ \E k \in Tasks, s \in Chains : SetTaskFallbacks(t, k, s)
       \/ \E field \in {"image", "video"} :
            (\E x \in Conns : UpdateImageConfig(t, field, x)) \/ BuildsProvider(t, field)
       \/ OpensFile(t) \/ WritesFile(t) \/ ResetGateway(t) \/ ResetImageProviders(t)
       \/ StoresProvider(t)

SettingsSpec == SettingsInit /\ [][SettingsNext]_settingsVars

-----------------------------------------------------------------------------
(* Requests that delete, activate and bind connections overlap, updates are*)
(* lost, a file is torn and seeded anew: what is saved is still in itself  *)
(* consistent, nothing active, bound or in a fallback chain is unknown     *)
(* (delete_llm_profile, set_task_bindings and set_task_fallbacks check what*)
(* they have loaded, and write it as a whole).                             *)
RegistryIsConsistent ==
  registry # Torn =>
    /\ registry.active \in Known(registry)
    /\ \A k \in Tasks : registry.bind[k] \in Known(registry) \cup {Nobody}
    /\ \A k \in Tasks : ToSet(registry.back[k]) \subseteq Known(registry)

(* However a call, saves and resets of the cache overlap, each candidate is*)
(* tried with the connection the call has resolved, never with an older one*)
(* of the same name that is still cached (_get_or_build of llm/factory.py).*)
CallsUseWhatTheyResolved ==
  call # NoCall => call.used = call.chain[call.at].conn

(* Once an update of the image settings has ended, the cached provider is  *)
(* of the settings there are, unless a provider was being built meanwhile  *)
(* (update_image_config resets the providers after it has written).        *)
ImageProviderIsCurrent ==
  OfImages = {} /\ ~met => imageProvider \in {Nobody, ImageConfig.image}
===============================================================================
