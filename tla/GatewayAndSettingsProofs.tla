--------------------- MODULE GatewayAndSettingsProofs ----------------------
(***************************************************************************)
(* Proofs about ProviderSettings and about EventGateway, for any           *)
(* connections, tasks, threads, rows, runs, panels and bounds.             *)
(*                                                                         *)
(* ProviderSettings: consistency of the registry follows the texts:        *)
(* whatever a request carries from its load to its write is consistent, so *)
(* that it does not matter which write wins.                               *)
(*                                                                         *)
(* EventGateway: the numbers of what is on its way only grow, so that a    *)
(* lost message shows as a gap; and the event of an end comes after every  *)
(* event that makes its row or run look busy, in the callbacks as on the   *)
(* wire.                                                                   *)
(***************************************************************************)
EXTENDS EventGateway, ProviderSettings, SequenceTheorems, TLAPS

USE SettingsAssumption

\* A chain from which a connection is removed is a chain still, names no connection
\* twice and does not name the removed one.
LEMMA WithoutTypes ==
  ASSUME NEW S, NEW s \in Seq(S), NEW i,
         \A m, n \in DOMAIN s : s[m] = s[n] => m = n
  PROVE  /\ Without(s, i) \in Seq(S)
         /\ ToSet(Without(s, i)) \subseteq ToSet(s) \ {i}
         /\ \A m, n \in DOMAIN Without(s, i) : Without(s, i)[m] = Without(s, i)[n] => m = n
  <1>1. CASE i \notin ToSet(s)
    BY <1>1 DEF Without
  <1>2. CASE i \in ToSet(s)
    <2>1. PICK k \in DOMAIN s : k = (CHOOSE n \in DOMAIN s : s[n] = i) /\ s[k] = i
      BY <1>2 DEF ToSet
    <2>2. PICK r : r = RemoveAt(s, k)
      OBVIOUS
    <2>3. Without(s, i) = r
      BY <1>2, <2>1, <2>2 DEF Without
    <2>4. /\ r \in Seq(S) /\ Len(r) = Len(s) - 1
          /\ \A m \in 1 .. Len(s) - 1 : r[m] = IF m < k THEN s[m] ELSE s[m + 1]
      <3>1. PICK a, b : a = SubSeq(s, 1, k - 1) /\ b = SubSeq(s, k + 1, Len(s))
        OBVIOUS
      <3>2. /\ a \in Seq(S) /\ Len(a) = k - 1
            /\ \A m \in 1 .. k - 1 : a[m] = s[m]
        BY <3>1
      <3>3. b \in Seq(S) /\ Len(b) = Len(s) - k
            /\ \A m \in 1 .. Len(s) - k : b[m] = s[k + m]
        BY <3>1
      <3>4. r = a \o b
        BY <2>2, <3>1 DEF RemoveAt
      <3> QED  BY <3>2, <3>3, <3>4
    <2>5. \A m \in DOMAIN r : \E n \in DOMAIN s : r[m] = s[n] /\ n # k
      BY <2>4
    <2>6. ToSet(r) \subseteq ToSet(s) \ {i}
      BY <2>1, <2>5 DEF ToSet
    <2>7. ASSUME NEW m \in DOMAIN r, NEW n \in DOMAIN r, r[m] = r[n] PROVE m = n
      <3>1. m \in 1 .. Len(s) - 1 /\ n \in 1 .. Len(s) - 1 /\ k \in 1 .. Len(s)
        BY <2>4
      <3>2. PICK a \in DOMAIN s : r[m] = s[a] /\ a = IF m < k THEN m ELSE m + 1
        BY <2>4, <3>1
      <3>3. PICK b \in DOMAIN s : r[n] = s[b] /\ b = IF n < k THEN n ELSE n + 1
        BY <2>4, <3>1
      <3>4. a = b
        BY <2>7, <3>2, <3>3
      <3> QED  BY <3>1, <3>2, <3>3, <3>4
    <2> QED  BY <2>3, <2>4, <2>6, <2>7
  <1> QED  BY <1>1, <1>2

-----------------------------------------------------------------------------
(* The registry.                                                           *)

Profiles   == [Ids -> Conns \cup {Nobody}]
Registries == [profiles : Profiles, active : Ids, bind : [Tasks -> Ids \cup {Nobody}],
               back : [Tasks -> Seq(Ids)]]

\* What may be saved: of the type of a registry, without unknown references, and no chain
\* names a connection twice.
Consistent(s) ==
  /\ s \in Registries
  /\ s.active \in Known(s)
  /\ \A k \in Tasks : s.bind[k] \in Known(s) \cup {Nobody}
  /\ \A k \in Tasks : ToSet(s.back[k]) \subseteq Known(s)
  /\ \A k \in Tasks : IsInjective(s.back[k])

\* What the file may hold, and a request may carry.
Texts == {s \in Registries : Consistent(s)}

\* The columns of a registry are of their types.
LEMMA Columns ==
  ASSUME NEW s \in Registries
  PROVE  /\ s.profiles \in Profiles /\ s.active \in Ids
         /\ s.bind \in [Tasks -> Ids \cup {Nobody}] /\ s.back \in [Tasks -> Seq(Ids)]
  BY DEF Registries

\* What a request loads is consistent, also when the file is torn and the registry is
\* seeded anew (_load_state, _seed_state).
LEMMA LoadedConsistent ==
  ASSUME registry \in Texts \cup {Torn}
  PROVE  Consistent(Loaded)
  <1>1. CASE registry = Torn
    <2>1. Loaded = Seed
      BY <1>1 DEF Loaded
    <2>2. Seed \in Registries
      BY DEF Seed, Registries, Profiles, Ids
    <2>3. Known(Seed) = {"default"}
      BY DEF Known, Seed, Ids
    <2> QED  BY <2>1, <2>2, <2>3 DEF Consistent, Seed, ToSet, IsInjective
  <1>2. CASE registry # Torn
    BY <1>2 DEF Texts, Loaded
  <1> QED  BY <1>1, <1>2

\* Changes of one column of a registry keep it consistent.  First, a connection is added or
\* updated.
LEMMA WithProfile ==
  ASSUME NEW s, Consistent(s), NEW i \in Ids, NEW x \in Conns
  PROVE  Consistent([s EXCEPT !.profiles[i] = x])
  <1>1. PICK p : p = [s.profiles EXCEPT ![i] = x]
    OBVIOUS
  <1>2. s \in Registries
    BY DEF Consistent
  <1>3. PICK n : n = [s EXCEPT !.profiles = p]
    OBVIOUS
  <1>4. n = [s EXCEPT !.profiles[i] = x]
    BY <1>1, <1>3
  <1>5. p \in Profiles
    BY <1>1, <1>2, Columns DEF Profiles
  <1>6. n \in Registries
    BY <1>2, <1>3, <1>5 DEF Registries
  <1>7. n.profiles = p /\ n.active = s.active /\ n.bind = s.bind /\ n.back = s.back
    BY <1>2, <1>3 DEF Registries
  <1>8. Known(s) \subseteq Known(n)
    BY <1>1, <1>2, <1>7, Columns DEF Known, Profiles
  <1> QED  BY <1>4, <1>6, <1>7, <1>8 DEF Consistent

\* A known connection is made active.
LEMMA WithActive ==
  ASSUME NEW s, Consistent(s), NEW i \in Known(s)
  PROVE  Consistent([s EXCEPT !.active = i])
  <1>1. s \in Registries /\ i \in Ids
    BY DEF Consistent, Known
  <1>2. PICK n : n = [s EXCEPT !.active = i]
    OBVIOUS
  <1>3. n \in Registries
    BY <1>1, <1>2 DEF Registries
  <1>4. n.profiles = s.profiles /\ n.active = i /\ n.bind = s.bind /\ n.back = s.back
    BY <1>1, <1>2 DEF Registries
  <1>5. Known(n) = Known(s)
    BY <1>4 DEF Known
  <1> QED  BY <1>2, <1>3, <1>4, <1>5 DEF Consistent

\* A task is bound to a known connection, or to none.
LEMMA WithBinding ==
  ASSUME NEW s, Consistent(s), NEW k \in Tasks, NEW i \in Known(s) \cup {Nobody}
  PROVE  Consistent([s EXCEPT !.bind[k] = i])
  <1>1. s \in Registries /\ i \in Ids \cup {Nobody}
    BY DEF Consistent, Known
  <1>2. PICK b : b = [s.bind EXCEPT ![k] = i]
    OBVIOUS
  <1>3. PICK n : n = [s EXCEPT !.bind = b]
    OBVIOUS
  <1>4. n = [s EXCEPT !.bind[k] = i]
    BY <1>2, <1>3
  <1>5. b \in [Tasks -> Ids \cup {Nobody}] /\ \A j \in Tasks : b[j] = s.bind[j] \/ b[j] = i
    BY <1>1, <1>2, Columns
  <1>6. n \in Registries
    BY <1>1, <1>3, <1>5 DEF Registries
  <1>7. n.profiles = s.profiles /\ n.active = s.active /\ n.bind = b /\ n.back = s.back
    BY <1>1, <1>3 DEF Registries
  <1>8. Known(n) = Known(s)
    BY <1>7 DEF Known
  <1>9. \A j \in Tasks : b[j] \in Known(n) \cup {Nobody}
    BY <1>5, <1>8 DEF Consistent
  <1> QED  BY <1>4, <1>6, <1>7, <1>8, <1>9 DEF Consistent

\* A task gets a chain of known connections.
LEMMA WithFallbacks ==
  ASSUME NEW s, Consistent(s), NEW k \in Tasks, NEW chain \in Chains, ToSet(chain) \subseteq Known(s)
  PROVE  Consistent([s EXCEPT !.back[k] = chain])
  <1>1. s \in Registries
    BY DEF Consistent
  <1>2. chain \in Seq(Ids) /\ IsInjective(chain)
    <2>1. PICK m \in 0 .. Cardinality(Ids) : chain \in [1 .. m -> Ids]
      BY DEF Chains, BoundedSeq, SeqOf
    <2> QED  BY <2>1 DEF Chains
  <1>3. PICK b : b = [s.back EXCEPT ![k] = chain]
    OBVIOUS
  <1>4. PICK n : n = [s EXCEPT !.back = b]
    OBVIOUS
  <1>5. n = [s EXCEPT !.back[k] = chain]
    BY <1>3, <1>4
  <1>6. b \in [Tasks -> Seq(Ids)] /\ \A j \in Tasks : b[j] = s.back[j] \/ b[j] = chain
    BY <1>1, <1>2, <1>3, Columns
  <1>7. n \in Registries
    BY <1>1, <1>4, <1>6 DEF Registries
  <1>8. n.profiles = s.profiles /\ n.active = s.active /\ n.bind = s.bind /\ n.back = b
    BY <1>1, <1>4 DEF Registries
  <1>9. Known(n) = Known(s)
    BY <1>8 DEF Known
  <1>10. \A j \in Tasks : ToSet(b[j]) \subseteq Known(n) /\ IsInjective(b[j])
    BY <1>2, <1>6, <1>9 DEF Consistent
  <1> QED  BY <1>5, <1>7, <1>8, <1>9, <1>10 DEF Consistent

\* A deleted connection is taken out of the bindings and of the chains as well.
LEMMA WithoutConsistent ==
  ASSUME NEW s, Consistent(s), NEW i \in Known(s), i # s.active
  PROVE  Consistent(WithoutProfile(s, i))
  <1>1. s \in Registries /\ i \in Ids
    BY DEF Consistent, Known
  <1>2. PICK n : n = WithoutProfile(s, i)
    OBVIOUS
  <1>3. /\ n.profiles = [s.profiles EXCEPT ![i] = Nobody]
        /\ n.active = s.active
        /\ n.bind = [k \in Tasks |-> IF s.bind[k] = i THEN Nobody ELSE s.bind[k]]
        /\ n.back = [k \in Tasks |-> Without(s.back[k], i)]
    BY <1>2 DEF WithoutProfile
  <1>4. \A k \in Tasks : /\ Without(s.back[k], i) \in Seq(Ids)
                         /\ ToSet(Without(s.back[k], i)) \subseteq ToSet(s.back[k]) \ {i}
                         /\ IsInjective(Without(s.back[k], i))
    <2> TAKE k \in Tasks
    <2>1. PICK c \in Seq(Ids) : c = s.back[k] /\ IsInjective(c)
      BY <1>1, Columns DEF Consistent
    <2>2. PICK w : w = Without(c, i)
      OBVIOUS
    <2>3. /\ w \in Seq(Ids) /\ ToSet(w) \subseteq ToSet(c) \ {i}
          /\ \A m, p \in DOMAIN w : w[m] = w[p] => m = p
      BY <2>1, <2>2, WithoutTypes DEF IsInjective
    <2> QED  BY <2>1, <2>2, <2>3 DEF IsInjective
  <1>5. Known(n) = Known(s) \ {i}
    BY <1>1, <1>3, Columns DEF Known, Profiles
  <1>6. n \in Registries
    <2>1. n.profiles \in Profiles
      BY <1>1, <1>3, Columns DEF Profiles
    <2>2. n.bind \in [Tasks -> Ids \cup {Nobody}]
      BY <1>1, <1>3, Columns
    <2>3. n.back \in [Tasks -> Seq(Ids)]
      BY <1>3, <1>4
    <2>4. n = [profiles |-> n.profiles, active |-> n.active, bind |-> n.bind, back |-> n.back]
      BY <1>2 DEF WithoutProfile
    <2> QED  BY <1>1, <1>3, <2>1, <2>2, <2>3, <2>4, Columns DEF Registries
  <1>7. n.active \in Known(n)
    BY <1>3, <1>5 DEF Consistent
  <1>8. \A k \in Tasks : n.bind[k] \in Known(n) \cup {Nobody}
    BY <1>3, <1>5 DEF Consistent
  <1>9. \A k \in Tasks : ToSet(n.back[k]) \subseteq Known(n)
    BY <1>3, <1>4, <1>5 DEF Consistent
  <1>10. \A k \in Tasks : IsInjective(n.back[k])
    BY <1>3, <1>4
  <1> QED  BY <1>2, <1>6, <1>7, <1>8, <1>9, <1>10 DEF Consistent

-----------------------------------------------------------------------------
(* The requests under way, and the invariant.                              *)

Moments      == {"open", "write", "reset"}
ImageConfigs == [image : Conns, video : Conns]
LlmSaves     == [op : Moments, file : {"llm"}, new : Texts, over : BOOLEAN]
ImageSaves   == [op : Moments, file : {"image"}, new : ImageConfigs, over : BOOLEAN]
Builds       == [op : {"store"}, field : {"image", "video"}, built : Conns]
Requests     == LlmSaves \cup ImageSaves \cup Builds \cup {Idle}

\* Type correctness: whatever is in the file of the registry, or is to be written there,
\* is a consistent registry.
FilesAreTexts ==
  /\ registry \in Texts \cup {Torn}
  /\ images \in ImageConfigs \cup {Torn}
  /\ req \in [Threads -> Requests]

\* A gateway is cached under the content it was built of.
GatewaysAreOfTheirKeys ==
  /\ \A g \in gateways : g.key = g.built
  /\ call = [task |-> call.task, chain |-> call.chain, at |-> call.at,
             used |-> call.used, flows |-> call.flows]
  /\ CallsUseWhatTheyResolved

\* Providers are built of the settings of now as long as no update meets them.
BuildsAreCurrent ==
  /\ ~met => OfImages = {} \/ Building = {}
  /\ ~met => \A t \in Building : req[t].field = "image" => req[t].built = ImageConfig.image
  /\ ImageProviderIsCurrent

SettingsInv == FilesAreTexts /\ GatewaysAreOfTheirKeys /\ BuildsAreCurrent

\* The columns of a request that saves a file.
LEMMA SaveColumns ==
  ASSUME NEW r \in Requests, r.op \in Moments
  PROVE  /\ r.file \in {"llm", "image"}
         /\ r.file = "llm" => r \in LlmSaves /\ r.new \in Texts
         /\ r.file = "image" => r \in ImageSaves /\ r.new \in ImageConfigs
  <1>1. r \in LlmSaves \cup ImageSaves
    BY DEF Requests, Builds, Idle, Moments
  <1>2. CASE r \in LlmSaves
    BY <1>2 DEF LlmSaves
  <1>3. CASE r \in ImageSaves
    BY <1>3 DEF ImageSaves
  <1> QED  BY <1>1, <1>2, <1>3

\* The columns of a request that builds a provider.
LEMMA BuildColumns ==
  ASSUME NEW r \in Requests, r.op = "store"
  PROVE  r \in Builds /\ r.field \in {"image", "video"} /\ r.built \in Conns
  <1>1. r \in Builds
    BY DEF Requests, LlmSaves, ImageSaves, Idle, Moments
  <1> QED  BY <1>1 DEF Builds

\* A request that saves stays well-formed from moment to moment.
LEMMA SaveMoves ==
  ASSUME NEW r \in Requests, r.op \in Moments, NEW op \in Moments
  PROVE  /\ [r EXCEPT !.op = op] \in Requests
         /\ [r EXCEPT !.op = op].op = op
         /\ [r EXCEPT !.op = op].file = r.file
         /\ [r EXCEPT !.over = TRUE] \in Requests
         /\ [r EXCEPT !.over = TRUE].op = r.op
         /\ [r EXCEPT !.over = TRUE].file = r.file
  <1>1. r \in LlmSaves \cup ImageSaves
    BY SaveColumns
  <1>2. CASE r \in LlmSaves
    <2>1. [r EXCEPT !.op = op] \in LlmSaves /\ [r EXCEPT !.over = TRUE] \in LlmSaves
      BY <1>2 DEF LlmSaves
    <2> QED  BY <1>2, <2>1 DEF LlmSaves, Requests
  <1>3. CASE r \in ImageSaves
    <2>1. [r EXCEPT !.op = op] \in ImageSaves /\ [r EXCEPT !.over = TRUE] \in ImageSaves
      BY <1>3 DEF ImageSaves
    <2> QED  BY <1>3, <2>1 DEF ImageSaves, Requests
  <1> QED  BY <1>1, <1>2, <1>3

\* What is loaded of the image settings has both its columns.
LEMMA ImageColumns ==
  ASSUME images \in ImageConfigs \cup {Torn}
  PROVE  ImageConfig \in ImageConfigs
  BY DEF ImageConfig, ImageConfigs, EnvImages

\* The invariant holds when the program starts.
LEMMA Initially == SettingsInit => SettingsInv
  <1> SUFFICES ASSUME SettingsInit PROVE SettingsInv
    OBVIOUS
  <1>1. FilesAreTexts
    BY DEF SettingsInit, FilesAreTexts, Requests
  <1>2. GatewaysAreOfTheirKeys
    BY DEF SettingsInit, GatewaysAreOfTheirKeys, CallsUseWhatTheyResolved, NoCall
  <1>3. BuildsAreCurrent
    BY DEF SettingsInit, BuildsAreCurrent, ImageProviderIsCurrent, OfImages, Building, Updating, At, Idle
  <1> QED  BY <1>1, <1>2, <1>3 DEF SettingsInv

-----------------------------------------------------------------------------
(* Files.                                                                  *)

\* Whatever consistent registry is saved, the request that carries it is well-formed.
LEMMA SavedTexts ==
  ASSUME FilesAreTexts, NEW t \in Threads, NEW s, Consistent(s), Saves(t, s)
  PROVE  FilesAreTexts'
  <1>1. s \in Texts
    BY DEF Consistent, Texts
  <1>2. PICK r : r = [op |-> "open", file |-> "llm", new |-> s, over |-> FALSE]
    OBVIOUS
  <1>3. r \in Requests
    BY <1>1, <1>2 DEF Requests, LlmSaves, Moments
  <1>4. req' = [req EXCEPT ![t] = r] /\ registry' = registry /\ images' = images
    BY <1>2 DEF Saves, media
  <1> QED  BY <1>3, <1>4 DEF FilesAreTexts

\* Every request of the registry saves a consistent registry: what it loaded was
\* consistent, and its change keeps it so.
LEMMA RegistrySaves ==
  ASSUME FilesAreTexts, NEW t \in Threads,
         \/ \E i \in Ids, x \in Conns : CreateProfile(t, i, x) \/ UpdateProfile(t, i, x)
         \/ \E x \in Conns : UpdateLlmConfig(t, x)
         \/ \E i \in Ids : ActivateProfile(t, i) \/ DeleteProfile(t, i)
         \/ \E k \in Tasks, i \in Ids \cup {Nobody} : SetTaskBinding(t, k, i)
         \/ \E k \in Tasks, s \in Chains : SetTaskFallbacks(t, k, s)
  PROVE  \E s : Consistent(s) /\ Saves(t, s)
  <1>1. PICK l : l = Loaded /\ Consistent(l)
    BY LoadedConsistent DEF FilesAreTexts
  <1>2. CASE \E i \in Ids, x \in Conns : CreateProfile(t, i, x) \/ UpdateProfile(t, i, x)
    <2>1. PICK i \in Ids, x \in Conns : Saves(t, [l EXCEPT !.profiles[i] = x])
      BY <1>1, <1>2 DEF CreateProfile, UpdateProfile
    <2> QED  BY <1>1, <2>1, WithProfile
  <1>3. CASE \E x \in Conns : UpdateLlmConfig(t, x)
    <2>1. PICK x \in Conns : Saves(t, [l EXCEPT !.profiles[l.active] = x])
      BY <1>1, <1>3 DEF UpdateLlmConfig, UpdateProfile
    <2>2. l.active \in Ids
      BY <1>1 DEF Consistent, Known
    <2> QED  BY <1>1, <2>1, <2>2, WithProfile
  <1>4. CASE \E i \in Ids : ActivateProfile(t, i)
    <2>1. PICK i \in Known(l) : Saves(t, [l EXCEPT !.active = i])
      BY <1>1, <1>4 DEF ActivateProfile
    <2> QED  BY <1>1, <2>1, WithActive
  <1>5. CASE \E i \in Ids : DeleteProfile(t, i)
    <2>1. PICK i \in Known(l) : i # l.active /\ Saves(t, WithoutProfile(l, i))
      BY <1>1, <1>5 DEF DeleteProfile
    <2> QED  BY <1>1, <2>1, WithoutConsistent
  <1>6. CASE \E k \in Tasks, i \in Ids \cup {Nobody} : SetTaskBinding(t, k, i)
    <2>1. PICK k \in Tasks, i \in Known(l) \cup {Nobody} : Saves(t, [l EXCEPT !.bind[k] = i])
      BY <1>1, <1>6 DEF SetTaskBinding
    <2> QED  BY <1>1, <2>1, WithBinding
  <1>7. CASE \E k \in Tasks, s \in Chains : SetTaskFallbacks(t, k, s)
    <2>1. PICK k \in Tasks, s \in Chains :
            ToSet(s) \subseteq Known(l) /\ Saves(t, [l EXCEPT !.back[k] = s])
      BY <1>1, <1>7 DEF SetTaskFallbacks
    <2> QED  BY <1>1, <2>1, WithFallbacks
  <1> QED  BY <1>2, <1>3, <1>4, <1>5, <1>6, <1>7

\* Opening a file empties it: a text, or a torn file.
LEMMA OpenedTexts ==
  ASSUME FilesAreTexts, NEW t \in Threads, OpensFile(t)
  PROVE  FilesAreTexts'
  <1>1. PICK r \in Requests : r = req[t] /\ r.op \in Moments
    BY DEF FilesAreTexts, OpensFile, At, Moments
  <1>2. PICK n : n = [r EXCEPT !.op = "write"]
    OBVIOUS
  <1>3. n \in Requests
    BY <1>1, <1>2, SaveMoves DEF Moments
  <1>4. req' = [req EXCEPT ![t] = n]
    BY <1>1, <1>2 DEF OpensFile, Goes
  <1>5. registry' \in {registry, Torn} /\ images' \in {images, Torn}
    BY DEF OpensFile
  <1> QED  BY <1>3, <1>4, <1>5 DEF FilesAreTexts

\* Writing a file leaves one of the texts that requests carry, or a torn file.
LEMMA WrittenTexts ==
  ASSUME FilesAreTexts, NEW t \in Threads, WritesFile(t)
  PROVE  FilesAreTexts'
  <1>1. PICK r \in Requests : r = req[t] /\ r.op \in Moments
    BY DEF FilesAreTexts, WritesFile, At, Moments
  <1>2. PICK torn : torn = {u \in Threads \ {t} : At(u, "write") /\ req[u].file = req[t].file}
    OBVIOUS
  <1>3. req' = [u \in Threads |-> CASE u = t -> [r EXCEPT !.op = "reset"]
                                   [] u \in torn -> [req[u] EXCEPT !.over = TRUE]
                                   [] OTHER -> req[u]]
    BY <1>1, <1>2 DEF WritesFile
  <1>4. \A u \in Threads : req'[u] \in Requests
    <2> TAKE u \in Threads
    <2>1. CASE u = t
      <3>1. [r EXCEPT !.op = "reset"] \in Requests
        BY <1>1, SaveMoves DEF Moments
      <3>2. req'[u] = CASE u = t -> [r EXCEPT !.op = "reset"]
                        [] u \in torn -> [req[u] EXCEPT !.over = TRUE]
                        [] OTHER -> req[u]
        BY ONLY <1>3
      <3>3. u \notin torn
        BY <1>2, <2>1
      <3>4. req'[u] = [r EXCEPT !.op = "reset"]
        BY ONLY <2>1, <3>2, <3>3
      <3> QED  BY <3>1, <3>4
    <2>2. CASE u # t /\ u \in torn
      <3>1. PICK v \in Requests : v = req[u] /\ v.op \in Moments
        BY <1>2, <2>2 DEF FilesAreTexts, At, Moments
      <3>2. [v EXCEPT !.over = TRUE] \in Requests
        BY <3>1, SaveMoves DEF Moments
      <3>3. req'[u] = [req[u] EXCEPT !.over = TRUE]
        BY <1>3, <2>2
      <3> QED  BY <3>1, <3>2, <3>3
    <2>3. CASE u # t /\ u \notin torn
      BY <1>3, <2>3 DEF FilesAreTexts
    <2> QED  BY <2>1, <2>2, <2>3
  <1>5. req' \in [Threads -> Requests]
    BY <1>3, <1>4
  <1>6. PICK text \in {r.new, Torn} : IF r.file = "llm" THEN registry' = text /\ UNCHANGED images
                                                      ELSE images' = text /\ UNCHANGED registry
    BY <1>1 DEF WritesFile
  <1>7. registry' \in Texts \cup {Torn} /\ images' \in ImageConfigs \cup {Torn}
    BY <1>1, <1>6, SaveColumns DEF FilesAreTexts
  <1> QED  BY <1>5, <1>7 DEF FilesAreTexts

\* The requests of the image settings are well-formed.
LEMMA ImageTexts ==
  ASSUME FilesAreTexts, NEW t \in Threads, NEW field \in {"image", "video"},
         (\E x \in Conns : UpdateImageConfig(t, field, x)) \/ BuildsProvider(t, field)
  PROVE  FilesAreTexts'
  <1>1. PICK c \in ImageConfigs : c = ImageConfig
    BY ImageColumns DEF FilesAreTexts
  <1>2. CASE \E x \in Conns : UpdateImageConfig(t, field, x)
    <2>1. PICK x \in Conns : UpdateImageConfig(t, field, x)
      BY <1>2
    <2>2. PICK n : n = [c EXCEPT ![field] = x]
      OBVIOUS
    <2>3. n \in ImageConfigs
      BY <1>1, <2>2 DEF ImageConfigs
    <2>4. PICK r : r = [op |-> "open", file |-> "image", over |-> FALSE, new |-> n]
      OBVIOUS
    <2>5. r \in Requests
      BY <2>3, <2>4 DEF Requests, ImageSaves, Moments
    <2>6. req' = [req EXCEPT ![t] = r] /\ registry' = registry /\ images' = images
      BY <1>1, <2>1, <2>2, <2>4 DEF UpdateImageConfig, llm, media
    <2> QED  BY <2>5, <2>6 DEF FilesAreTexts
  <1>3. CASE BuildsProvider(t, field)
    <2>1. PICK r : r = [op |-> "store", field |-> field, built |-> c[field]]
      OBVIOUS
    <2>2. c[field] \in Conns
      BY <1>1 DEF ImageConfigs
    <2>3. r \in Requests
      BY <2>1, <2>2 DEF Requests, Builds
    <2>4. req' = [req EXCEPT ![t] = r] /\ registry' = registry /\ images' = images
      BY <1>1, <1>3, <2>1 DEF BuildsProvider, llm, media
    <2> QED  BY <2>3, <2>4 DEF FilesAreTexts
  <1> QED  BY <1>2, <1>3

\* Every step keeps the files and the requests well-formed.
LEMMA FilesStep ==
  ASSUME FilesAreTexts, [SettingsNext]_settingsVars
  PROVE  FilesAreTexts'
  <1> USE DEF FilesAreTexts
  <1>1. CASE UNCHANGED settingsVars
    BY <1>1 DEF settingsVars, llm, media
  <1>2. CASE FailsOver
    BY <1>2 DEF FailsOver, media
  <1>3. CASE FirstChunk
    BY <1>3 DEF FirstChunk, media
  <1>4. CASE CallEnds
    BY <1>4 DEF CallEnds, media
  <1>5. CASE Crash
    BY <1>5 DEF Crash, Requests
  <1>6. CASE \E k \in Tasks \cup {"default"} : CreateGateway(k)
    BY <1>6 DEF CreateGateway, media
  <1>7. ASSUME NEW t \in Threads, \E s : Consistent(s) /\ Saves(t, s) PROVE FilesAreTexts'
    BY <1>7, SavedTexts
  <1>8. ASSUME NEW t \in Threads, OpensFile(t) \/ WritesFile(t) PROVE FilesAreTexts'
    BY <1>8, OpenedTexts, WrittenTexts
  <1>9. ASSUME NEW t \in Threads, ResetGateway(t) \/ ResetImageProviders(t) \/ StoresProvider(t)
        PROVE  FilesAreTexts'
    BY <1>9 DEF ResetGateway, ResetImageProviders, StoresProvider, Goes, llm, media, Requests
  <1>10. ASSUME NEW t \in Threads, NEW field \in {"image", "video"},
                (\E x \in Conns : UpdateImageConfig(t, field, x)) \/ BuildsProvider(t, field)
         PROVE  FilesAreTexts'
    BY <1>10, ImageTexts
  <1> HIDE DEF FilesAreTexts
  <1> QED  BY <1>1, <1>2, <1>3, <1>4, <1>5, <1>6, <1>7, <1>8, <1>9, <1>10, RegistrySaves DEF SettingsNext

-----------------------------------------------------------------------------
(* Calls.                                                                  *)

\* Whether the gateway was cached or is built now, it is of the content of the candidate.
LEMMA UsesWhatIsResolved ==
  ASSUME GatewaysAreOfTheirKeys, NEW n,
         NEW c, c = [task |-> c.task, chain |-> c.chain, at |-> c.at, used |-> c.used, flows |-> c.flows],
         Uses(c, n)
  PROVE  GatewaysAreOfTheirKeys'
  <1>1. PICK d : d = c.chain[n]
    OBVIOUS
  <1>2. PICK g : g = Gateway(d)
    OBVIOUS
  <1>3. g.key = g.built /\ g.built = d.conn
    <2>1. CASE \E h \in gateways : h.key = Key(d)
      <3>1. g \in gateways /\ g.key = Key(d)
        BY <1>2, <2>1 DEF Gateway
      <3> QED  BY <3>1 DEF GatewaysAreOfTheirKeys, Key
    <2>2. CASE ~ \E h \in gateways : h.key = Key(d)
      <3>1. g = [key |-> d.conn, built |-> d.conn]
        BY <1>2, <2>2 DEF Gateway, Key
      <3> QED  BY <3>1
    <2> QED  BY <2>1, <2>2
  <1>4. gateways' = gateways \cup {g} /\ call' = [c EXCEPT !.at = n, !.used = g.built]
    BY <1>1, <1>2 DEF Uses
  <1>5. call' = [task |-> c.task, chain |-> c.chain, at |-> n, used |-> g.built, flows |-> c.flows]
    BY <1>4
  <1>6. CallsUseWhatTheyResolved'
    BY <1>1, <1>3, <1>5 DEF CallsUseWhatTheyResolved
  <1>7. \A h \in gateways' : h.key = h.built
    BY <1>3, <1>4 DEF GatewaysAreOfTheirKeys
  <1> QED  BY <1>5, <1>6, <1>7 DEF GatewaysAreOfTheirKeys

\* Every step keeps each gateway of the content it is cached under, and the call served
\* by what it resolved.
LEMMA GatewaysStep ==
  ASSUME GatewaysAreOfTheirKeys, [SettingsNext]_settingsVars
  PROVE  GatewaysAreOfTheirKeys'
  <1>1. ASSUME UNCHANGED <<gateways, call>> PROVE GatewaysAreOfTheirKeys'
    BY <1>1 DEF GatewaysAreOfTheirKeys, CallsUseWhatTheyResolved
  <1>2. CASE FailsOver
    BY <1>2, UsesWhatIsResolved DEF FailsOver, GatewaysAreOfTheirKeys
  <1>3. CASE FirstChunk
    <2>1. call' = [task |-> call.task, chain |-> call.chain, at |-> call.at,
                   used |-> call.used, flows |-> TRUE]
      BY <1>3 DEF FirstChunk, GatewaysAreOfTheirKeys
    <2> QED  BY <1>3, <2>1 DEF FirstChunk, GatewaysAreOfTheirKeys, CallsUseWhatTheyResolved
  <1>4. CASE CallEnds
    BY <1>4 DEF CallEnds, GatewaysAreOfTheirKeys, CallsUseWhatTheyResolved, NoCall
  <1>5. CASE Crash
    BY <1>5 DEF Crash, GatewaysAreOfTheirKeys, CallsUseWhatTheyResolved, NoCall
  <1>6. CASE \E k \in Tasks \cup {"default"} : CreateGateway(k)
    <2>1. PICK k, chain :
            Uses([task |-> k, chain |-> chain, at |-> 0, used |-> Nobody, flows |-> FALSE], 1)
      BY <1>6 DEF CreateGateway
    <2>2. PICK c : c = [task |-> k, chain |-> chain, at |-> 0, used |-> Nobody, flows |-> FALSE]
      OBVIOUS
    <2>3. c = [task |-> c.task, chain |-> c.chain, at |-> c.at, used |-> c.used, flows |-> c.flows]
      BY <2>2
    <2> QED  BY <2>1, <2>2, <2>3, UsesWhatIsResolved
  <1>7. CASE \E t \in Threads : ResetGateway(t)
    BY <1>7 DEF ResetGateway, GatewaysAreOfTheirKeys, CallsUseWhatTheyResolved
  <1>8. ASSUME NEW t \in Threads, OpensFile(t) \/ WritesFile(t) \/ ResetImageProviders(t) \/ StoresProvider(t)
        PROVE  UNCHANGED <<gateways, call>>
    BY <1>8 DEF OpensFile, WritesFile, ResetImageProviders, StoresProvider, llm
  <1>9. ASSUME NEW t \in Threads, NEW i \in Ids,
               \/ \E x \in Conns : CreateProfile(t, i, x) \/ UpdateProfile(t, i, x)
               \/ ActivateProfile(t, i) \/ DeleteProfile(t, i)
        PROVE  UNCHANGED <<gateways, call>>
    BY <1>9 DEF CreateProfile, UpdateProfile, ActivateProfile, DeleteProfile, Saves
  <1>10. ASSUME NEW t \in Threads, NEW k \in Tasks,
                \/ \E i \in Ids \cup {Nobody} : SetTaskBinding(t, k, i)
                \/ \E s \in Chains : SetTaskFallbacks(t, k, s)
         PROVE  UNCHANGED <<gateways, call>>
    BY <1>10 DEF SetTaskBinding, SetTaskFallbacks, Saves
  <1>11. ASSUME NEW t \in Threads, NEW field,
                \/ \E x \in Conns : UpdateImageConfig(t, field, x)
                \/ BuildsProvider(t, field)
         PROVE  UNCHANGED <<gateways, call>>
    BY <1>11 DEF UpdateImageConfig, BuildsProvider, llm
  <1>12. CASE UNCHANGED settingsVars
    BY <1>1, <1>12 DEF settingsVars, llm
  <1>13. ASSUME NEW t \in Threads, \E x \in Conns : UpdateLlmConfig(t, x)
         PROVE  UNCHANGED <<gateways, call>>
    BY <1>13 DEF UpdateLlmConfig, UpdateProfile, Saves
  <1> QED  BY <1>1, <1>2, <1>3, <1>4, <1>5, <1>6, <1>7, <1>8, <1>9, <1>10, <1>11, <1>12, <1>13
           DEF SettingsNext

-----------------------------------------------------------------------------
(* Providers of images.                                                    *)

\* A request of the registry, and a step of the loop, leave all this alone.
LEMMA BuildsKept ==
  ASSUME BuildsAreCurrent, OfImages' = OfImages, Building' = Building,
         UNCHANGED <<images, imageProvider, met>>, \A t \in Building : req'[t] = req[t]
  PROVE  BuildsAreCurrent'
  BY DEF BuildsAreCurrent, ImageProviderIsCurrent, ImageConfig

\* Saving the registry does not touch the image settings.
LEMMA SavesBuilds ==
  ASSUME FilesAreTexts, BuildsAreCurrent, NEW t \in Threads, NEW s, Saves(t, s)
  PROVE  BuildsAreCurrent'
  <1>1. PICK r : r = [op |-> "open", file |-> "llm", new |-> s, over |-> FALSE]
    OBVIOUS
  <1>2. req' = [req EXCEPT ![t] = r] /\ UNCHANGED <<images, imageProvider, met>>
    BY <1>1 DEF Saves, media
  <1>3. req[t].op = "idle" /\ r.op = "open" /\ r.file = "llm"
    BY <1>1 DEF Saves, Idle
  <1>4. OfImages' = OfImages /\ Building' = Building /\ \A u \in Building : req'[u] = req[u]
    BY <1>2, <1>3 DEF OfImages, Updating, Building, At, FilesAreTexts
  <1> QED  BY <1>2, <1>4, BuildsKept

\* A file is opened: of the image settings only while no provider is being built,
\* unless they have met.
LEMMA OpensBuilds ==
  ASSUME FilesAreTexts, BuildsAreCurrent, NEW t \in Threads, OpensFile(t)
  PROVE  BuildsAreCurrent'
  <1>1. PICK r \in Requests : r = req[t] /\ r.op = "open" /\ r.op \in Moments
    BY DEF FilesAreTexts, OpensFile, At, Moments
  <1>2. PICK n : n = [r EXCEPT !.op = "write"]
    OBVIOUS
  <1>3. n.op = "write" /\ n.file = r.file /\ r.file \in {"llm", "image"}
    BY <1>1, <1>2, SaveMoves, SaveColumns DEF Moments
  <1>4. req' = [req EXCEPT ![t] = n] /\ UNCHANGED <<imageProvider, met>>
    BY <1>1, <1>2 DEF OpensFile, Goes
  <1>5. OfImages' = OfImages /\ Building' = Building /\ \A u \in Building : req'[u] = req[u]
    BY <1>1, <1>3, <1>4 DEF OfImages, Updating, Building, At, FilesAreTexts
  <1>6. CASE r.file = "llm"
    BY <1>1, <1>4, <1>5, <1>6, BuildsKept DEF OpensFile
  <1>7. CASE r.file = "image"
    <2>1. OfImages # {}
      BY <1>1, <1>7 DEF OfImages, Updating, At
    <2> QED  BY <1>4, <1>5, <2>1 DEF BuildsAreCurrent, ImageProviderIsCurrent
  <1> QED  BY <1>3, <1>6, <1>7

\* A file is written: the same.
LEMMA WritesBuilds ==
  ASSUME FilesAreTexts, BuildsAreCurrent, NEW t \in Threads, WritesFile(t)
  PROVE  BuildsAreCurrent'
  <1>1. PICK r \in Requests : r = req[t] /\ r.op = "write" /\ r.op \in Moments
    BY DEF FilesAreTexts, WritesFile, At, Moments
  <1>2. PICK torn : torn = {u \in Threads \ {t} : At(u, "write") /\ req[u].file = req[t].file}
    OBVIOUS
  <1>3. req' = [u \in Threads |-> CASE u = t -> [r EXCEPT !.op = "reset"]
                                   [] u \in torn -> [req[u] EXCEPT !.over = TRUE]
                                   [] OTHER -> req[u]]
    BY <1>1, <1>2 DEF WritesFile
  <1>4. req'[t].op = "reset" /\ req'[t].file = r.file /\ r.file \in {"llm", "image"}
    <2>1. req'[t] = CASE t = t -> [r EXCEPT !.op = "reset"]
                      [] t \in torn -> [req[t] EXCEPT !.over = TRUE]
                      [] OTHER -> req[t]
      BY ONLY <1>3
    <2>2. t \notin torn
      BY <1>2
    <2>3. req'[t] = [r EXCEPT !.op = "reset"]
      BY <2>1, <2>2
    <2> QED  BY <1>1, <2>3, SaveMoves, SaveColumns DEF Moments
  <1>5. \A u \in torn : req'[u].op = "write" /\ req[u].op = "write" /\ req'[u].file = req[u].file
    <2> TAKE u \in torn
    <2>1. PICK v \in Requests : v = req[u] /\ v.op = "write" /\ v.op \in Moments
      BY <1>2 DEF FilesAreTexts, At, Moments
    <2>2. req'[u] = [v EXCEPT !.over = TRUE]
      BY <1>2, <1>3, <2>1
    <2> QED  BY <2>1, <2>2, SaveMoves
  <1>6. \A u \in Threads : u # t /\ u \notin torn => req'[u] = req[u]
    BY <1>3
  <1>7. \A u \in Threads : /\ u \in Building <=> req'[u].op = "store"
                           /\ u \in Building => req'[u] = req[u]
    BY <1>1, <1>4, <1>5, <1>6 DEF Building, At
  <1>8. \A u \in Threads : u \in OfImages <=> /\ req'[u].op \in Moments
                                              /\ req'[u].file = "image"
    BY <1>1, <1>4, <1>5, <1>6 DEF OfImages, Updating, At, Moments
  <1>9. OfImages' = OfImages /\ Building' = Building
    BY <1>7, <1>8 DEF OfImages, Updating, Building, At, Moments
  <1>10. UNCHANGED <<imageProvider, met>>
    BY DEF WritesFile
  <1>11. \A u \in Building : req'[u] = req[u]
    BY <1>7 DEF Building
  <1>12. CASE r.file = "llm"
    BY <1>1, <1>9, <1>10, <1>11, <1>12, BuildsKept DEF WritesFile
  <1>13. CASE r.file = "image"
    <2>1. OfImages # {}
      BY <1>1, <1>13 DEF OfImages, Updating, At
    <2> QED  BY <1>9, <1>10, <2>1 DEF BuildsAreCurrent, ImageProviderIsCurrent
  <1> QED  BY <1>4, <1>12, <1>13

\* Resetting the providers drops the cached one, so it may be followed by anything.
LEMMA ResetsBuilds ==
  ASSUME FilesAreTexts, BuildsAreCurrent, NEW t \in Threads,
         ResetGateway(t) \/ ResetImageProviders(t)
  PROVE  BuildsAreCurrent'
  <1>1. /\ req' = [req EXCEPT ![t] = Idle] /\ UNCHANGED <<images, met>> /\ req[t].op = "reset"
        /\ \/ req[t].file = "llm" /\ imageProvider' = imageProvider
           \/ req[t].file = "image" /\ imageProvider' = Nobody
    BY DEF ResetGateway, ResetImageProviders, Goes, media, At
  <1>2. /\ req'[t] = Idle /\ \A u \in Threads \ {t} : req'[u] = req[u]
        /\ Idle.op = "idle"
    BY <1>1 DEF FilesAreTexts, Idle
  <1>3. Building' = Building /\ \A u \in Building : req'[u] = req[u]
    BY <1>1, <1>2 DEF Building, At
  <1>4. CASE req[t].file = "llm"
    <2>1. OfImages' = OfImages
      BY <1>1, <1>2, <1>4 DEF OfImages, Updating, At
    <2> QED  BY <1>1, <1>3, <1>4, <2>1, BuildsKept
  <1>5. CASE req[t].file = "image"
    <2>1. OfImages' \subseteq OfImages
      BY <1>1, <1>2 DEF OfImages, Updating, At
    <2> QED  BY <1>1, <1>3, <1>5, <2>1 DEF BuildsAreCurrent, ImageProviderIsCurrent, ImageConfig
  <1> QED  BY <1>1, <1>4, <1>5

\* An update of the image settings starts: it meets the providers being built.
LEMMA UpdatesBuilds ==
  ASSUME FilesAreTexts, BuildsAreCurrent, NEW t \in Threads, NEW field, NEW x,
         UpdateImageConfig(t, field, x)
  PROVE  BuildsAreCurrent'
  <1>1. PICK n : n = [ImageConfig EXCEPT ![field] = x]
    OBVIOUS
  <1>2. PICK r : r = [op |-> "open", file |-> "image", over |-> FALSE, new |-> n]
    OBVIOUS
  <1>3. /\ req' = [req EXCEPT ![t] = r] /\ UNCHANGED <<images, imageProvider>>
        /\ met' = (met \/ Building # {}) /\ req[t].op = "idle"
    BY <1>1, <1>2 DEF UpdateImageConfig, media, Idle
  <1>4. r.op = "open" /\ r.file = "image"
    BY <1>2
  <1>5. Building' = Building /\ t \in OfImages'
    BY <1>3, <1>4 DEF FilesAreTexts, Building, OfImages, Updating, At
  <1> QED  BY <1>3, <1>5 DEF BuildsAreCurrent, ImageProviderIsCurrent

\* A provider begins to be built: of the settings of now, if no update is under way.
LEMMA StartsBuild ==
  ASSUME FilesAreTexts, BuildsAreCurrent, NEW t \in Threads, NEW field \in {"image", "video"},
         BuildsProvider(t, field)
  PROVE  BuildsAreCurrent'
  <1>1. PICK b : b = ImageConfig[field]
    OBVIOUS
  <1>2. PICK r : r = [op |-> "store", field |-> field, built |-> b]
    OBVIOUS
  <1>3. /\ req' = [req EXCEPT ![t] = r] /\ UNCHANGED <<images, imageProvider>>
        /\ met' = (met \/ OfImages # {}) /\ req[t].op = "idle"
    BY <1>1, <1>2 DEF BuildsProvider, media, Idle
  <1>4. r.op = "store" /\ r.field = field /\ r.built = b
    BY <1>2
  <1>5. /\ req'[t] = r /\ \A u \in Threads \ {t} : req'[u] = req[u]
    BY <1>3 DEF FilesAreTexts
  <1>6. OfImages' = OfImages /\ Building' = Building \cup {t}
    BY <1>3, <1>4, <1>5 DEF Building, OfImages, Updating, At
  <1>7. ImageConfig' = ImageConfig
    BY <1>3 DEF ImageConfig
  <1>8. ASSUME ~met', NEW u \in Building', req'[u].field = "image" PROVE req'[u].built = ImageConfig'.image
    <2>1. CASE u = t
      <3>1. field = "image" /\ ImageConfig \in ImageConfigs
        BY <1>4, <1>5, <1>8, <2>1, ImageColumns DEF FilesAreTexts
      <3> QED  BY <1>1, <1>4, <1>5, <1>7, <2>1, <3>1 DEF ImageConfigs
    <2>2. CASE u # t
      <3>1. u \in Building /\ req'[u] = req[u]
        BY <1>5, <1>6, <1>8, <2>2 DEF Building
      <3> QED  BY <1>3, <1>7, <1>8, <3>1 DEF BuildsAreCurrent
    <2> QED  BY <2>1, <2>2
  <1>9. ~met' => OfImages' = {}
    BY <1>3, <1>6
  <1>10. ImageProviderIsCurrent'
    BY <1>3, <1>6, <1>7 DEF BuildsAreCurrent, ImageProviderIsCurrent
  <1> QED  BY <1>8, <1>9, <1>10 DEF BuildsAreCurrent

\* A provider that met no update is stored: its settings are still those of the file.
LEMMA StoresBuild ==
  ASSUME FilesAreTexts, BuildsAreCurrent, NEW t \in Threads, StoresProvider(t)
  PROVE  BuildsAreCurrent'
  <1>1. PICK r \in Requests : r = req[t] /\ r.op = "store" /\ r.field \in {"image", "video"}
    BY BuildColumns DEF FilesAreTexts, StoresProvider, At
  <1>2. /\ req' = [req EXCEPT ![t] = Idle] /\ UNCHANGED <<images, met>>
        /\ imageProvider' = IF r.field = "image" THEN r.built ELSE imageProvider
    BY <1>1 DEF StoresProvider, Goes
  <1>3. /\ req'[t] = Idle /\ \A u \in Threads \ {t} : req'[u] = req[u]
        /\ Idle.op = "idle"
    BY <1>2 DEF FilesAreTexts, Idle
  <1>4. OfImages' = OfImages /\ Building' \subseteq Building /\ \A u \in Building' : req'[u] = req[u]
    BY <1>1, <1>3 DEF Building, OfImages, Updating, At
  <1>5. ImageConfig' = ImageConfig
    BY <1>2 DEF ImageConfig
  <1>6. t \in Building
    BY <1>1 DEF Building, At
  <1>7. ImageProviderIsCurrent'
    BY <1>1, <1>2, <1>4, <1>5, <1>6 DEF BuildsAreCurrent, ImageProviderIsCurrent
  <1> QED  BY <1>2, <1>4, <1>5, <1>7 DEF BuildsAreCurrent

\* Every step keeps the cached provider current, unless a build and an update have met.
LEMMA BuildsStep ==
  ASSUME FilesAreTexts, BuildsAreCurrent, [SettingsNext]_settingsVars
  PROVE  BuildsAreCurrent'
  <1>1. ASSUME UNCHANGED <<req, images, imageProvider, met>> PROVE BuildsAreCurrent'
    <2>1. OfImages' = OfImages /\ Building' = Building
      BY <1>1 DEF OfImages, Updating, Building, At
    <2> QED  BY <1>1, <2>1, BuildsKept
  <1>2. ASSUME FailsOver \/ FirstChunk \/ CallEnds \/ UNCHANGED settingsVars
        PROVE  BuildsAreCurrent'
    BY <1>1, <1>2 DEF FailsOver, FirstChunk, CallEnds, settingsVars, media
  <1>3. CASE \E k \in Tasks \cup {"default"} : CreateGateway(k)
    BY <1>1, <1>3 DEF CreateGateway, media
  <1>4. CASE Crash
    <2>1. imageProvider' = Nobody /\ \A t \in Threads : req'[t].op = "idle"
      BY <1>4 DEF Crash, Idle
    <2>2. Building' = {}
      BY <2>1 DEF Building, At
    <2> QED  BY <2>1, <2>2 DEF BuildsAreCurrent, ImageProviderIsCurrent
  <1>5. ASSUME NEW t \in Threads, \E s : Consistent(s) /\ Saves(t, s) PROVE BuildsAreCurrent'
    BY <1>5, SavesBuilds
  <1>6. ASSUME NEW t \in Threads, OpensFile(t) \/ WritesFile(t) \/ ResetGateway(t)
               \/ ResetImageProviders(t) \/ StoresProvider(t)
        PROVE  BuildsAreCurrent'
    BY <1>6, OpensBuilds, WritesBuilds, ResetsBuilds, StoresBuild
  <1>7. ASSUME NEW t \in Threads, NEW field \in {"image", "video"},
               (\E x \in Conns : UpdateImageConfig(t, field, x)) \/ BuildsProvider(t, field)
        PROVE  BuildsAreCurrent'
    BY <1>7, UpdatesBuilds, StartsBuild
  <1> QED  BY <1>2, <1>3, <1>4, <1>5, <1>6, <1>7, RegistrySaves DEF SettingsNext

-----------------------------------------------------------------------------
\* SettingsInv is an invariant of the settings.
THEOREM Invariance == SettingsSpec => []SettingsInv
  <1>1. SettingsInv /\ [SettingsNext]_settingsVars => SettingsInv'
    BY FilesStep, GatewaysStep, BuildsStep DEF SettingsInv
  <1> QED  BY Initially, <1>1, PTL DEF SettingsSpec

\* However requests of several threads overlap, and wherever a file is torn, the saved
\* registry names no unknown connection.
THEOREM SavedRegistriesAreConsistent == SettingsSpec => []RegistryIsConsistent
  <1>1. SettingsInv => RegistryIsConsistent
    BY DEF SettingsInv, FilesAreTexts, Texts, Consistent, RegistryIsConsistent
  <1> QED  BY Invariance, <1>1, PTL

\* Each candidate of a call is served by a gateway of the connection the call resolved,
\* whatever is saved or reset meanwhile.
THEOREM CallsAreServedAsResolved == SettingsSpec => []CallsUseWhatTheyResolved
  <1>1. SettingsInv => CallsUseWhatTheyResolved
    BY DEF SettingsInv, GatewaysAreOfTheirKeys
  <1> QED  BY Invariance, <1>1, PTL

\* The cached image provider is of the current settings whenever no update is under
\* way, unless a provider was being built during one.
THEOREM CachedProviderIsCurrent == SettingsSpec => []ImageProviderIsCurrent
  <1>1. SettingsInv => ImageProviderIsCurrent
    BY DEF SettingsInv, BuildsAreCurrent
  <1> QED  BY Invariance, <1>1, PTL

-----------------------------------------------------------------------------
(* EventGateway.                                                           *)
HIDE SettingsAssumption

\* Events of generations are of rows, all others of runs or of neither.
OfRows == {"generation.queued", "generation.started", "generation.completed", "generation.interrupted"}
OfRuns == {"system.connected", "agent.plan.created", "agent.tool.started", "agent.proposal.created",
           "agent.approval.required"} \cup RunEnds
EventsOfBus == [type : OfRows, id : Rows] \cup [type : OfRuns \cup Kinds, id : Runs \cup {NoId}]
Messages == [seq : Nat, event : EventsOfBus]

DbTypes(x) ==
  /\ x \in [Rows \cup Runs -> RowStages \cup RunStages]
  /\ \A r \in Rows : x[r] \in RowStages
  /\ \A d \in Runs : x[d] \in RunStages

AllIds == Rows \cup Runs \cup {NoId}
Panels == [run : Runs \cup {NoId}, status : PanelStatuses]
PanelRequests == [ask : {"nothing", "start", "cancel", "resume"}, run : Runs \cup {NoId}]

Types ==
  /\ query \in Queries /\ live \subseteq Rows /\ panel \in Panels /\ request \in PanelRequests
  /\ astray \subseteq AllIds
  /\ DbTypes(db) /\ latest \in Runs \cup {NoId} /\ late \subseteq EventsOfBus /\ up \in BOOLEAN
  /\ callbacks \in Seq(EventsOfBus)
  /\ open \in BOOLEAN /\ queue \in Seq(Messages) /\ wire \in Seq(Messages)
  /\ Len(queue) <= QueueMax /\ Len(wire) <= WireMax /\ sequence \in Nat
  /\ last \in Nat /\ works \in 0 .. MaxWorks /\ happened \in 0 .. MaxEvents

\* The numbers of what is on its way: those in the buffer are consecutive up to the
\* last one given, those sent are smaller and grow.
StreamOK ==
  /\ Len(queue) <= sequence
  /\ \A i \in 1 .. Len(queue) : queue[i].seq = sequence - Len(queue) + i
  /\ \A i \in 1 .. Len(wire) : wire[i].seq <= sequence - Len(queue)
  /\ \A i, j \in 1 .. Len(wire) : i < j => wire[i].seq < wire[j].seq
  /\ ~open => wire = <<>> /\ queue = <<>>

\* What is on its way as a set: the numbers order it.
OnItsWay == Events(wire) \cup Events(queue)
Taken == {m \in OnItsWay : m.seq > last}
TakenEvents == {m.event : m \in Taken}
WillCome == late \cup Events(callbacks) \cup TakenEvents
Missing == \E m \in OnItsWay : m.seq > last + 1 /\ \A n \in OnItsWay : n.seq # m.seq - 1

MountOK == query.behind => IsMounted

QueryOK ==
  open /\ query.behind /\ ~query.unheard =>
    \/ query.due
    \/ query.answer = "current"
    \/ \E e \in WillCome : Invalidates(e)
    \/ Missing

\* The event makes its row or its run look busy, or corrects it.
Busies(e) == e.type \in {"generation.queued", "generation.started", "agent.plan.created", "agent.tool.started"}
BusiesOf(x, e) == Busies(e) /\ e.id = x
EndsOf(x, e) == Corrects(e) /\ e.id = x

\* The event of the end of x is still to come after ...
EndIsLate(x) == \E e \in late : EndsOf(x, e)
EndIsScheduled(x) == EndIsLate(x) \/ \E i \in DOMAIN callbacks : EndsOf(x, callbacks[i])
EndComesAfter(x, n) == EndIsScheduled(x) \/ \E m \in Taken : m.seq > n /\ EndsOf(x, m.event)
EndComes(x) == \E e \in WillCome : EndsOf(x, e)

\* A run does nothing after its end.
RunOK(d) ==
  /\ \A e \in WillCome : EndsOf(d, e) => db[d] \in Over
  /\ \A i, j \in DOMAIN callbacks : EndsOf(d, callbacks[i]) /\ BusiesOf(d, callbacks[j]) => j < i
  /\ \A m \in Taken : EndsOf(d, m.event) =>
       /\ \A i \in DOMAIN callbacks : ~BusiesOf(d, callbacks[i])
       /\ \A n \in Taken : BusiesOf(d, n.event) => n.seq < m.seq

RunsOK == \A d \in Runs : RunOK(d)

\* A thread's late event makes a row look busy, never a run.
LateOK == \A e \in late : Busies(e) => e.type = "generation.queued" \/ e.id = NoId

\* The end of what has ended comes after everything that makes it look busy.
FollowOK(x) ==
  /\ ShownAsBusy(x) => EndComes(x)
  /\ \A m \in Taken : BusiesOf(x, m.event) => EndComesAfter(x, m.seq)
  /\ \A i \in DOMAIN callbacks : BusiesOf(x, callbacks[i]) =>
       EndIsLate(x) \/ \E j \in DOMAIN callbacks : j > i /\ EndsOf(x, callbacks[j])

StoresOK == \A x \in (Rows \cup Runs) \ astray : db[x] \in Over \cup RowEnds => FollowOK(x)

GatewayInv == Types /\ StreamOK /\ MountOK /\ QueryOK /\ LateOK /\ RunsOK /\ StoresOK

USE WindowAssumption, GatewayAssumption

-----------------------------------------------------------------------------
(* Sequences and the sets of their elements.                               *)

LEMMA EventsFacts ==
  ASSUME NEW S, NEW s \in Seq(S)
  PROVE  /\ \A x : x \in Events(s) <=> \E i \in 1 .. Len(s) : x = s[i]
         /\ Events(s) \subseteq S
         /\ DOMAIN s = 1 .. Len(s) /\ Len(s) \in Nat
  BY DEF Events

LEMMA EventsOfConcat ==
  ASSUME NEW S, NEW s \in Seq(S), NEW t \in Seq(S)
  PROVE  /\ s \o t \in Seq(S) /\ Len(s \o t) = Len(s) + Len(t)
         /\ Events(s \o t) = Events(s) \cup Events(t)
         /\ \A i \in 1 .. Len(s) : (s \o t)[i] = s[i]
         /\ \A i \in 1 .. Len(t) : (s \o t)[Len(s) + i] = t[i]
  <1>1. /\ s \o t \in Seq(S) /\ Len(s \o t) = Len(s) + Len(t)
        /\ \A i \in 1 .. Len(s) : (s \o t)[i] = s[i]
        /\ \A i \in 1 .. Len(t) : (s \o t)[Len(s) + i] = t[i]
    OBVIOUS
  <1>2. \A i \in 1 .. Len(s) + Len(t) : (s \o t)[i] = IF i <= Len(s) THEN s[i] ELSE t[i - Len(s)]
    OBVIOUS
  <1>3. ASSUME NEW x \in Events(s \o t)  PROVE x \in Events(s) \cup Events(t)
    <2>1. DOMAIN (s \o t) = 1 .. Len(s) + Len(t)
      BY <1>1
    <2> PICK i \in 1 .. Len(s) + Len(t) : x = (s \o t)[i]
      BY <1>3, <2>1 DEF Events
    <2>2. CASE i <= Len(s)
      BY <2>2, <1>2, EventsFacts
    <2>3. CASE i > Len(s)
      <3>1. i - Len(s) \in 1 .. Len(t) /\ x = t[i - Len(s)]
        BY <2>3, <1>2
      <3> QED  BY <3>1, EventsFacts
    <2> QED  BY <2>2, <2>3
  <1>4. ASSUME NEW x \in Events(s)  PROVE x \in Events(s \o t)
    <2>1. PICK i \in 1 .. Len(s) : x = s[i]
      BY <1>4, EventsFacts
    <2>2. i \in 1 .. Len(s \o t) /\ x = (s \o t)[i]
      BY <2>1, <1>1
    <2> QED  BY <2>2, <1>1, EventsFacts
  <1>5. ASSUME NEW x \in Events(t)  PROVE x \in Events(s \o t)
    <2>1. PICK i \in 1 .. Len(t) : x = t[i]
      BY <1>5, EventsFacts
    <2>2. Len(s) + i \in 1 .. Len(s \o t) /\ x = (s \o t)[Len(s) + i]
      BY <2>1, <1>1
    <2> QED  BY <2>2, <1>1, EventsFacts
  <1> QED  BY <1>1, <1>3, <1>4, <1>5

LEMMA EventsOfAppend ==
  ASSUME NEW S, NEW s \in Seq(S), NEW x \in S
  PROVE  /\ Append(s, x) \in Seq(S) /\ Len(Append(s, x)) = Len(s) + 1
         /\ Events(Append(s, x)) = Events(s) \cup {x}
         /\ \A i \in 1 .. Len(s) : Append(s, x)[i] = s[i]
         /\ Append(s, x)[Len(s) + 1] = x
  <1>1. /\ Append(s, x) \in Seq(S) /\ Len(Append(s, x)) = Len(s) + 1
        /\ \A i \in 1 .. Len(s) : Append(s, x)[i] = s[i]
        /\ Append(s, x)[Len(s) + 1] = x
    OBVIOUS
  <1>2. \A y : y \in Events(Append(s, x)) <=> \E i \in 1 .. Len(s) + 1 : y = Append(s, x)[i]
    <2>1. DOMAIN Append(s, x) = 1 .. Len(s) + 1
      BY <1>1
    <2> QED  BY <2>1 DEF Events
  <1>3. \A y : y \in Events(s) <=> \E i \in 1 .. Len(s) : y = s[i]
    BY EventsFacts
  <1>4. Len(s) \in Nat
    OBVIOUS
  <1>5. ASSUME NEW y  PROVE y \in Events(Append(s, x)) <=> y \in Events(s) \/ y = x
    BY <1>1, <1>2, <1>3, <1>4
  <1> QED  BY <1>1, <1>5

LEMMA EventsOfTail ==
  ASSUME NEW S, NEW s \in Seq(S), s # <<>>
  PROVE  /\ Tail(s) \in Seq(S) /\ Len(Tail(s)) = Len(s) - 1 /\ Len(s) >= 1
         /\ Head(s) \in S /\ Head(s) = s[1] /\ Head(s) \in Events(s)
         /\ Events(s) = {Head(s)} \cup Events(Tail(s))
         /\ \A i \in 1 .. Len(s) - 1 : Tail(s)[i] = s[i + 1]
  <1>1. /\ Tail(s) \in Seq(S) /\ Len(Tail(s)) = Len(s) - 1 /\ Len(s) >= 1 /\ Len(s) \in Nat
        /\ Head(s) \in S /\ Head(s) = s[1]
        /\ \A i \in 1 .. Len(s) - 1 : Tail(s)[i] = s[i + 1]
    OBVIOUS
  <1>2. \A y : y \in Events(s) <=> \E i \in 1 .. Len(s) : y = s[i]
    BY EventsFacts
  <1>3. \A y : y \in Events(Tail(s)) <=> \E i \in 1 .. Len(s) - 1 : y = Tail(s)[i]
    <2>1. DOMAIN Tail(s) = 1 .. Len(s) - 1
      BY <1>1
    <2> QED  BY <2>1 DEF Events
  <1>4. ASSUME NEW y \in Events(s), y # Head(s)  PROVE y \in Events(Tail(s))
    <2>1. PICK i \in 1 .. Len(s) : y = s[i]
      BY <1>2, <1>4
    <2>2. i - 1 \in 1 .. Len(s) - 1 /\ y = Tail(s)[i - 1]
      BY <1>1, <1>4, <2>1
    <2> QED  BY <2>2, <1>3
  <1>5. ASSUME NEW y \in Events(Tail(s))  PROVE y \in Events(s)
    <2>1. PICK i \in 1 .. Len(s) - 1 : y = Tail(s)[i]
      BY <1>3, <1>5
    <2>2. i + 1 \in 1 .. Len(s) /\ y = s[i + 1]
      BY <1>1, <2>1
    <2> QED  BY <2>2, <1>2
  <1>6. Head(s) \in Events(s)
    BY <1>1, <1>2
  <1> QED  BY <1>1, <1>4, <1>5, <1>6

LEMMA EventsOfEmpty == Events(<<>>) = {} /\ \A S : <<>> \in Seq(S)
  BY DEF Events

LEMMA EventsOfOne ==
  ASSUME NEW x
  PROVE  Events(<<x>>) = {x} /\ Len(<<x>>) = 1 /\ <<x>>[1] = x /\ \A S : x \in S => <<x>> \in Seq(S)
  BY DEF Events

LEMMA EventsOfTwo ==
  ASSUME NEW x, NEW y
  PROVE  /\ Events(<<x, y>>) = {x, y} /\ Len(<<x, y>>) = 2 /\ <<x, y>>[1] = x /\ <<x, y>>[2] = y
         /\ \A S : x \in S /\ y \in S => <<x, y>> \in Seq(S)
  BY DEF Events

LEMMA EventFacts ==
  ASSUME NEW e \in EventsOfBus
  PROVE  /\ e.type \in OfRows => e.id \in Rows
         /\ e.type \notin OfRows => e.id \in Runs \cup {NoId}
         /\ e.id \in Runs \cup {NoId} => e.type \notin OfRows
         /\ e.id \in Rows => e.type \in OfRows
  BY DEF EventsOfBus, OfRows, OfRuns, RunEnds

LEMMA NewEvents ==
  /\ \A t \in OfRows, r \in Rows : Event(t, r) \in EventsOfBus
  /\ \A t \in OfRuns \cup Kinds, d \in Runs \cup {NoId} : Event(t, d) \in EventsOfBus
  /\ \A t, x : Event(t, x).type = t /\ Event(t, x).id = x
  /\ \A n \in Nat, e \in EventsOfBus : /\ Message(n, e) \in Messages
                                       /\ Message(n, e).seq = n /\ Message(n, e).event = e
  BY DEF Event, Message, Messages, EventsOfBus

-----------------------------------------------------------------------------
(* The stream.                                                             *)

\* The numbers order what is on its way.
LEMMA StreamFacts ==
  ASSUME Types, StreamOK
  PROVE  /\ OnItsWay \subseteq Messages
         /\ \A m \in OnItsWay : m.seq \in Nat /\ m.seq <= sequence
         /\ \A m \in Events(queue) : m.seq > sequence - Len(queue)
         /\ \A m \in Events(wire) : m.seq <= sequence - Len(queue)
         /\ \A m, n \in OnItsWay : m.seq = n.seq => m = n
         /\ Len(queue) \in Nat /\ sequence \in Nat /\ last \in Nat
  <1>1. /\ \A m : m \in Events(queue) <=> \E i \in 1 .. Len(queue) : m = queue[i]
        /\ \A m : m \in Events(wire) <=> \E i \in 1 .. Len(wire) : m = wire[i]
        /\ Events(queue) \subseteq Messages /\ Events(wire) \subseteq Messages
        /\ Len(queue) \in Nat /\ Len(wire) \in Nat
    BY EventsFacts DEF Types
  <1>2. sequence \in Nat /\ last \in Nat
    BY DEF Types
  <1>3. \A m \in Messages : m.seq \in Nat
    BY DEF Messages
  <1>4. \A m \in Events(queue) : m.seq > sequence - Len(queue) /\ m.seq <= sequence
    BY <1>1, <1>2 DEF StreamOK
  <1>5. \A m \in Events(wire) : m.seq <= sequence - Len(queue)
    BY <1>1, <1>2 DEF StreamOK
  <1>6. ASSUME NEW m \in Events(queue), NEW n \in Events(queue), m.seq = n.seq  PROVE m = n
    <2>1. PICK i, j \in 1 .. Len(queue) : m = queue[i] /\ n = queue[j]
      BY <1>1
    <2>2. i = j
      BY <2>1, <1>1, <1>2, <1>6 DEF StreamOK
    <2> QED  BY <2>1, <2>2
  <1>7. ASSUME NEW m \in Events(wire), NEW n \in Events(wire), m.seq = n.seq  PROVE m = n
    <2>1. PICK i, j \in 1 .. Len(wire) : m = wire[i] /\ n = wire[j]
      BY <1>1
    <2>2. m.seq \in Nat /\ n.seq \in Nat
      BY <1>1, <1>3
    <2>3. ~(i < j) /\ ~(j < i)
      BY <2>1, <2>2, <1>7 DEF StreamOK
    <2> QED  BY <2>1, <2>3
  <1>8. \A m \in OnItsWay : m.seq <= sequence
    BY <1>1, <1>2, <1>3, <1>4, <1>5 DEF OnItsWay
  <1>9. \A m, n \in OnItsWay : m.seq = n.seq => m = n
    BY <1>1, <1>2, <1>3, <1>4, <1>5, <1>6, <1>7 DEF OnItsWay
  <1> QED  BY <1>1, <1>2, <1>3, <1>4, <1>5, <1>8, <1>9 DEF OnItsWay

LEMMA StreamOfMessages ==
  ASSUME Types
  PROVE  /\ Stream \in Seq(Messages) /\ Events(Stream) = OnItsWay
         /\ Len(Stream) = Len(wire) + Len(queue)
         /\ \A i \in 1 .. Len(wire) : Stream[i] = wire[i]
         /\ \A i \in 1 .. Len(queue) : Stream[Len(wire) + i] = queue[i]
  BY EventsOfConcat DEF Types, Stream, OnItsWay

LEMMA StreamGrows ==
  ASSUME Types, StreamOK, NEW i \in 1 .. Len(Stream), NEW j \in 1 .. Len(Stream), i < j
  PROVE  Stream[i].seq < Stream[j].seq
  <1>1. /\ Stream \in Seq(Messages) /\ Len(Stream) = Len(wire) + Len(queue)
        /\ \A k \in 1 .. Len(wire) : Stream[k] = wire[k]
        /\ \A k \in 1 .. Len(queue) : Stream[Len(wire) + k] = queue[k]
        /\ Len(wire) \in Nat /\ Len(queue) \in Nat /\ sequence \in Nat
    BY StreamOfMessages DEF Types
  <1>2. \A k \in 1 .. Len(Stream) : Stream[k] \in Messages
    BY <1>1
  <1>3. \A k \in 1 .. Len(Stream) : Stream[k].seq \in Nat
    BY <1>2 DEF Messages
  <1>4. CASE j <= Len(wire)
    <2>1. i \in 1 .. Len(wire) /\ j \in 1 .. Len(wire)
      BY <1>1, <1>4
    <2> QED  BY <2>1, <1>1 DEF StreamOK
  <1>5. CASE j > Len(wire)
    <2>1. PICK b \in 1 .. Len(queue) : j = Len(wire) + b
      <3>1. j - Len(wire) \in 1 .. Len(queue) /\ j = Len(wire) + (j - Len(wire))
        BY <1>1, <1>5
      <3> QED  BY <3>1
    <2>2. Stream[j].seq = sequence - Len(queue) + b
      BY <1>1, <2>1 DEF StreamOK
    <2>3. CASE i <= Len(wire)
      <3>1. Stream[i].seq <= sequence - Len(queue)
        BY <1>1, <2>3 DEF StreamOK
      <3> QED  BY <3>1, <2>2, <1>1, <1>3
    <2>4. CASE i > Len(wire)
      <3>1. PICK a \in 1 .. Len(queue) : i = Len(wire) + a
        <4>1. i - Len(wire) \in 1 .. Len(queue) /\ i = Len(wire) + (i - Len(wire))
          BY <1>1, <2>4
        <4> QED  BY <4>1
      <3>2. Stream[i].seq = sequence - Len(queue) + a
        BY <1>1, <3>1 DEF StreamOK
      <3> QED  BY <3>1, <3>2, <2>1, <2>2, <1>1
    <2> QED  BY <2>3, <2>4, <1>1
  <1> QED  BY <1>4, <1>5, <1>1

LEMMA TakenFacts ==
  ASSUME Types, StreamOK
  PROVE  /\ \A i \in DOMAIN Stream : IsTaken(i) <=> Stream[i].seq > last
         /\ Coming = WillCome
         /\ (\E i \in DOMAIN Stream : GapBefore(i)) <=> Missing
  <1>1. /\ Stream \in Seq(Messages) /\ DOMAIN Stream = 1 .. Len(Stream) /\ Len(Stream) \in Nat
        /\ OnItsWay = {Stream[i] : i \in DOMAIN Stream} /\ last \in Nat
    BY StreamOfMessages, EventsFacts DEF Types, Events
  <1>2. \A i \in DOMAIN Stream : Stream[i] \in Messages /\ Stream[i].seq \in Nat
    <2>1. \A i \in DOMAIN Stream : Stream[i] \in Messages
      BY <1>1
    <2> QED  BY <2>1 DEF Messages
  <1>3. ASSUME NEW i \in DOMAIN Stream
        PROVE  Stream[i].seq > NumberBefore(i) <=> Stream[i].seq > last
    <2>1. CASE i = 1
      BY <2>1 DEF NumberBefore
    <2>2. CASE i # 1
      <3>1. i - 1 \in DOMAIN Stream /\ i - 1 < i
        BY <1>1, <2>2
      <3>2. Stream[i - 1].seq < Stream[i].seq
        BY <3>1, <1>1, StreamGrows
      <3> QED  BY <3>1, <3>2, <1>1, <1>2, <2>2 DEF NumberBefore
    <2> QED  BY <2>1, <2>2
  <1>4. \A m : m.seq > last /\ m.seq \in Nat => WellFormed(m)
    <2>1. Greeting.seq = 0
      BY DEF Greeting, Message
    <2> QED  BY <1>1, <2>1 DEF WellFormed
  <1>5. \A i \in DOMAIN Stream : IsTaken(i) <=> Stream[i].seq > last
    BY <1>2, <1>3, <1>4 DEF IsTaken
  <1>6. Coming = WillCome
    <2>1. {Stream[i].event : i \in {j \in DOMAIN Stream : IsTaken(j)}} = TakenEvents
      BY <1>1, <1>5 DEF Taken, TakenEvents
    <2> QED  BY <2>1 DEF Coming, WillCome
  <1>7. ASSUME NEW i \in DOMAIN Stream, GapBefore(i)  PROVE Missing
    <2>1. Stream[i].seq > last /\ Stream[i].seq > NumberBefore(i) + 1
      BY <1>5, <1>7 DEF GapBefore
    <2>2. Stream[i].seq > last + 1
      <3>1. CASE NumberBefore(i) = last
        BY <2>1, <3>1
      <3>2. CASE NumberBefore(i) # last
        <4>1. i # 1 /\ NumberBefore(i) = Stream[i - 1].seq /\ ~(Stream[i - 1].seq <= last)
          BY <3>2 DEF NumberBefore
        <4>2. i - 1 \in DOMAIN Stream
          BY <4>1, <1>1
        <4> QED  BY <4>1, <4>2, <2>1, <1>1, <1>2
      <3> QED  BY <3>1, <3>2
    <2>3. ASSUME NEW j \in DOMAIN Stream, Stream[j].seq = Stream[i].seq - 1  PROVE FALSE
      <3>1. j < i
        <4>1. ~(i < j) /\ i # j
          BY <2>3, <1>1, <1>2, StreamGrows
        <4> QED  BY <4>1, <1>1
      <3>2. i # 1 /\ i - 1 \in DOMAIN Stream
        BY <3>1, <1>1
      <3>3. CASE j = i - 1
        BY <3>2, <3>3, <2>1, <2>3, <1>2, <1>1 DEF NumberBefore
      <3>4. CASE j # i - 1
        <4>1. Stream[j].seq < Stream[i - 1].seq /\ Stream[i - 1].seq < Stream[i].seq
          BY <3>1, <3>2, <3>4, <1>1, StreamGrows
        <4> QED  BY <4>1, <3>2, <1>2, <2>3
      <3> QED  BY <3>3, <3>4
    <2> QED  BY <1>1, <2>2, <2>3 DEF Missing
  <1>8. ASSUME Missing  PROVE \E i \in DOMAIN Stream : GapBefore(i)
    <2>1. PICK m \in OnItsWay : m.seq > last + 1 /\ \A n \in OnItsWay : n.seq # m.seq - 1
      BY <1>8 DEF Missing
    <2>2. PICK i \in DOMAIN Stream : m = Stream[i]
      BY <1>1
    <2>3. Stream[i].seq > NumberBefore(i) + 1
      <3>1. CASE NumberBefore(i) = last
        BY <2>1, <2>2, <3>1
      <3>2. CASE NumberBefore(i) # last
        <4>1. i # 1 /\ NumberBefore(i) = Stream[i - 1].seq
          BY <3>2 DEF NumberBefore
        <4>2. i - 1 \in DOMAIN Stream /\ i - 1 < i
          BY <4>1, <1>1
        <4>3. Stream[i - 1].seq < Stream[i].seq
          BY <4>2, <1>1, StreamGrows
        <4>4. Stream[i - 1].seq # Stream[i].seq - 1
          BY <4>2, <2>1, <2>2, <1>1
        <4> QED  BY <4>1, <4>2, <4>3, <4>4, <1>2
      <3> QED  BY <3>1, <3>2
    <2>4. IsTaken(i)
      BY <2>1, <2>2, <1>1, <1>2, <1>5
    <2> QED  BY <2>3, <2>4 DEF GapBefore
  <1> QED  BY <1>5, <1>6, <1>7, <1>8

-----------------------------------------------------------------------------
(* Types.                                                                  *)

LEMMA QueryFacts ==
  ASSUME NEW q \in Queries
  PROVE  /\ q.view \in Watched /\ q.behind \in BOOLEAN /\ q.due \in BOOLEAN /\ q.unheard \in BOOLEAN
         /\ q.answer \in {"none", "current", "old"}
         /\ \A b \in BOOLEAN : [q EXCEPT !.unheard = b] \in Queries
         /\ Fresh(q.view) \in Queries
  BY DEF Queries, Fresh

LEMMA CommitsTypes ==
  ASSUME query \in Queries, NEW e, Commits(e)
  PROVE  query' \in Queries /\ query'.view = query.view
  <1>1. CASE query' = query
    BY <1>1
  <1>2. CASE query' = [query EXCEPT !.behind = TRUE, !.answer = IF @ = "none" THEN "none" ELSE "old",
                                    !.unheard = @ \/ ~Invalidates(e)]
    <2> PICK a \in {"none", "old"} : a = IF query.answer = "none" THEN "none" ELSE "old"
      OBVIOUS
    <2> PICK u \in BOOLEAN : u = (query.unheard \/ ~Invalidates(e))
      OBVIOUS
    <2>1. query' = [query EXCEPT !.behind = TRUE, !.answer = a, !.unheard = u]
      BY <1>2
    <2> QED  BY <2>1 DEF Queries
  <1> QED  BY <1>1, <1>2 DEF Commits

LEMMA InvalidatedTypes ==
  ASSUME query \in Queries, NEW really, Invalidated(really)
  PROVE  query' \in Queries /\ query'.view = query.view
  BY DEF Queries, Invalidated

LEMMA MountsTypes ==
  ASSUME query \in Queries, NEW run, Mounts(run)
  PROVE  query' \in Queries /\ query'.view = query.view
  <1>1. CASE query' = query
    BY <1>1
  <1>2. CASE query' = [Fresh(query.view) EXCEPT !.behind = run # NoId, !.due = run # NoId]
    <2> PICK b \in BOOLEAN : b = (run # NoId)
      OBVIOUS
    <2>1. query' = [Fresh(query.view) EXCEPT !.behind = b, !.due = b]
      BY <1>2
    <2> QED  BY <2>1 DEF Queries, Fresh
  <1> QED  BY <1>1, <1>2 DEF Mounts

LEMMA LosesTypes ==
  ASSUME astray \subseteq AllIds, NEW S \in SUBSET EventsOfBus, Loses(S)
  PROVE  astray' \subseteq AllIds
  BY EventFacts DEF Loses, AllIds, EventsOfBus

LEMMA DbFacts ==
  ASSUME DbTypes(db)
  PROVE  /\ \A r \in Rows, s \in RowStages : DbTypes([db EXCEPT ![r] = s])
         /\ \A d \in Runs, s \in RunStages : DbTypes([db EXCEPT ![d] = s])
         /\ \A x \in Rows \cup Runs : \A s : \A y \in Rows \cup Runs : [db EXCEPT ![x] = s][y] = IF y = x THEN s ELSE db[y]
  <1>1. db \in [Rows \cup Runs -> RowStages \cup RunStages]
    BY DEF DbTypes
  <1> QED  BY <1>1 DEF DbTypes

LEMMA PublishTypes ==
  ASSUME callbacks \in Seq(EventsOfBus), NEW es \in Seq(EventsOfBus), Publish(es)
  PROVE  callbacks' \in Seq(EventsOfBus) /\ callbacks' = callbacks \o es
  BY EventsOfConcat DEF Publish

LEMMA WritesTypes ==
  ASSUME Types, NEW x \in Rows \cup Runs, NEW stage, NEW e \in EventsOfBus, WritesAndPublishes(x, stage, e),
         IF x \in Rows THEN stage \in RowStages ELSE stage \in RunStages,
         live' \subseteq Rows, panel' \in Panels, request' \in PanelRequests, astray' \subseteq AllIds
  PROVE  Types'
  <1> USE DEF WritesAndPublishes
  <1>1. query' \in Queries
    BY CommitsTypes DEF Types
  <1>2. DbTypes(db')
    BY DbFacts DEF Types
  <1>3. <<e>> \in Seq(EventsOfBus)
    BY EventsOfOne
  <1>4. callbacks' \in Seq(EventsOfBus)
    BY <1>3, PublishTypes DEF Types
  <1> QED  BY <1>1, <1>2, <1>4 DEF gateway, bounds, Types

LEMMA ThreadTypes ==
  ASSUME Types, NEW e \in EventsOfBus, ThreadCommits(e), DbTypes(db'),
         works' \in 0 .. MaxWorks, happened' \in 0 .. MaxEvents
  PROVE  Types'
  <1> USE DEF ThreadCommits
  <1>1. query' \in Queries
    BY CommitsTypes DEF Types
  <1> QED  BY <1>1 DEF gateway, stores, Types

LEMMA BoundsTypes ==
  ASSUME Types, Begins \/ Happens
  PROVE  works' \in 0 .. MaxWorks /\ happened' \in 0 .. MaxEvents
  BY DEF Begins, Happens, Types

LEMMA RowTypes ==
  ASSUME Types, NEW r \in Rows, OfRow(r)
  PROVE  Types'
  <1>1. CASE CreatesRow(r)
    <2>1. Event("generation.queued", r) \in EventsOfBus
      BY NewEvents DEF OfRows
    <2>2. DbTypes(db')
      BY <1>1, DbFacts DEF CreatesRow, RowStages, Types
    <2> QED  BY <1>1, <2>1, <2>2, ThreadTypes, BoundsTypes DEF CreatesRow
  <1>2. CASE Starts(r)
    <2>1. Event("generation.started", r) \in EventsOfBus
      BY NewEvents DEF OfRows
    <2> QED  BY <1>2, <2>1, WritesTypes DEF Starts, RowStages, stores, Types
  <1>3. CASE Completes(r)
    <2>1. Event("generation.completed", r) \in EventsOfBus
      BY NewEvents DEF OfRows
    <2> QED  BY <1>3, <2>1, WritesTypes DEF Completes, RowStages, RowEnds, stores, Types
  <1>4. CASE Interrupts(r)
    <2>1. Event("generation.interrupted", r) \in EventsOfBus
      BY NewEvents DEF OfRows
    <2>2. astray' \subseteq AllIds /\ live' \subseteq Rows /\ panel' \in Panels /\ request' \in PanelRequests
      BY <1>4 DEF Interrupts, AllIds, Types
    <2> QED  BY <1>4, <2>1, <2>2, WritesTypes DEF Interrupts, RowStages, RowEnds, Types
  <1> QED  BY <1>1, <1>2, <1>3, <1>4 DEF OfRow

LEMMA ServesTypes ==
  ASSUME Types, NEW d \in Runs, NEW ask \in {"cancel", "resume"}, NEW stage \in RunStages, Serves(d, ask, stage)
  PROVE  Types'
  <1> USE DEF Serves
  <1>1. query' \in Queries
    BY CommitsTypes DEF Types
  <1>2. DbTypes(db')
    BY DbFacts DEF Types
  <1>3. request' \in PanelRequests
    BY DEF PanelRequests, Types
  <1> QED  BY <1>1, <1>2, <1>3 DEF gateway, bounds, Types

LEMMA RunEventTypes ==
  ASSUME NEW d \in Runs
  PROVE  /\ Event("agent.plan.created", d) \in EventsOfBus /\ Event("agent.tool.started", d) \in EventsOfBus
         /\ Event("agent.proposal.created", d) \in EventsOfBus
         /\ Event("agent.approval.required", NoId) \in EventsOfBus
         /\ Event("agent.run.failed", d) \in EventsOfBus
         /\ \A end \in Over : Event(EndEvent(end), d) \in EventsOfBus /\ EndEvent(end) \in RunEnds
  <1>1. \A end \in Over : EndEvent(end) \in RunEnds
    BY DEF Over, EndEvent, RunEnds
  <1>2. \A t \in OfRuns : Event(t, d) \in EventsOfBus /\ Event(t, NoId) \in EventsOfBus
    BY NewEvents
  <1> QED  BY <1>1, <1>2 DEF OfRuns, RunEnds

LEMMA RunTypes ==
  ASSUME Types, NEW d \in Runs, OfRun(d)
  PROVE  Types'
  <1> d \notin Rows
    OBVIOUS
  <1>1. CASE Submits(d) \/ OthersSubmit(d)
    <2>1. db' = [db EXCEPT ![d] = "running"] /\ latest' = d
      BY <1>1 DEF Submits, OthersSubmit
    <2>2. DbTypes(db')
      BY <2>1, DbFacts DEF RunStages, Working, Types
    <2>3. request' \in PanelRequests
      BY <1>1 DEF Submits, OthersSubmit, PanelRequests, window, stores, Types
    <2>4. works' \in 0 .. MaxWorks /\ happened' \in 0 .. MaxEvents
      BY <1>1, BoundsTypes DEF Submits, OthersSubmit
    <2>5. UNCHANGED <<late, up, callbacks, gateway, query, live, panel, astray, last>>
      BY <1>1 DEF Submits, OthersSubmit, window, stores
    <2> QED  BY <2>1, <2>2, <2>3, <2>4, <2>5 DEF gateway, Types
  <1>2. CASE Plans(d)
    BY <1>2, RunEventTypes, WritesTypes DEF Plans, RunStages, Working, stores, Types
  <1>3. CASE ActsInRun(d)
    BY <1>3, RunEventTypes, WritesTypes DEF ActsInRun, RunStages, Working, stores, Types
  <1>4. CASE Parks(d)
    <2> PICK e, f \in EventsOfBus : e = Event("agent.proposal.created", d) /\ f = Event("agent.approval.required", NoId)
      BY RunEventTypes
    <2>1. <<e, f>> \in Seq(EventsOfBus)
      BY EventsOfTwo
    <2>2. callbacks' \in Seq(EventsOfBus)
      BY <1>4, <2>1, PublishTypes DEF Parks, Types
    <2>3. query' \in Queries
      BY <1>4, CommitsTypes DEF Parks, Types
    <2>4. DbTypes(db')
      BY <1>4, DbFacts DEF Parks, RunStages, Types
    <2> QED  BY <1>4, <2>2, <2>3, <2>4 DEF Parks, gateway, stores, bounds, Types
  <1>5. ASSUME NEW end \in Over, EndsRun(d, end)  PROVE Types'
    <2> PICK e \in EventsOfBus : e = Event(EndEvent(end), d)
      BY RunEventTypes
    <2>1. WritesAndPublishes(d, end, e) /\ UNCHANGED stores
      BY <1>5 DEF EndsRun
    <2> QED  BY <2>1, WritesTypes DEF RunStages, stores, Types
  <1>6. CASE Expires(d)
    <2>1. DbTypes(db')
      BY <1>6, DbFacts DEF Expires, RunStages, Over, Types
    <2>2. works' \in 0 .. MaxWorks /\ happened' \in 0 .. MaxEvents
      BY <1>6 DEF Expires, bounds, Types
    <2> QED  BY <1>6, <2>1, <2>2, RunEventTypes, ThreadTypes DEF Expires, Types
  <1>7. CASE Cancels(d) \/ Resumes(d)
    BY <1>7, ServesTypes DEF Cancels, Resumes, RunStages, Working, Types
  <1> QED  BY <1>1, <1>2, <1>3, <1>4, <1>5, <1>6, <1>7 DEF OfRun

LEMMA ChangesTypes ==
  ASSUME Types, NEW kind \in Kinds, Changes(kind)
  PROVE  Types'
  <1>1. Event(kind, NoId) \in EventsOfBus
    BY NewEvents
  <1> QED  BY <1>1, BoundsTypes, ThreadTypes DEF Changes, Types

LEMMA PublishesTypes ==
  ASSUME Types, NEW e, ThreadPublishes(e)
  PROVE  Types'
  <1>1. e \in EventsOfBus
    BY DEF ThreadPublishes, Types
  <1>2. callbacks' \in Seq(EventsOfBus)
    BY <1>1, EventsOfOne, PublishTypes DEF ThreadPublishes, Types
  <1>3. astray' \subseteq AllIds
    BY <1>1, EventFacts DEF ThreadPublishes, AllIds, EventsOfBus, Types
  <1> QED  BY <1>2, <1>3 DEF ThreadPublishes, gateway, bounds, Types

LEMMA ConnectionTypes ==
  ASSUME Types, StreamOK, Connect \/ ConnectionBreaks \/ ProcessDies \/ Restart
  PROVE  Types' /\ StreamOK'
  <1>1. CASE Connect
    <2>1. query' \in Queries /\ UNCHANGED stores
      BY <1>1, InvalidatedTypes DEF Connect, Reconcile, Types
    <2> PICK g : g = Greeting
      OBVIOUS
    <2>2. g \in Messages /\ g.seq = 0
      BY NewEvents DEF Greeting, OfRuns
    <2>3. wire' = <<g>> /\ wire' \in Seq(Messages) /\ Len(wire') = 1 /\ wire'[1] = g
      BY <1>1, <2>2, EventsOfOne DEF Connect
    <2>4. queue = <<>> /\ queue' = queue /\ sequence' = 0 /\ open' = TRUE
      BY <1>1 DEF Connect, StreamOK
    <2>5. Len(queue) = 0
      BY <2>4
    <2>6. StreamOK'
      BY <2>2, <2>3, <2>4, <2>5 DEF StreamOK
    <2>7. UNCHANGED <<backend, callbacks, last, bounds>>
      BY <1>1 DEF Connect
    <2> QED  BY <2>1, <2>3, <2>4, <2>5, <2>6, <2>7 DEF Types, stores, backend, bounds
  <1>2. ASSUME NEW lost \in SUBSET EventsOfBus, CloseConnection, Loses(lost)
        PROVE  /\ StreamOK' /\ astray' \subseteq AllIds /\ queue' = <<>> /\ wire' = <<>>
               /\ queue' \in Seq(Messages) /\ wire' \in Seq(Messages)
               /\ Len(queue') <= QueueMax /\ Len(wire') <= WireMax
               /\ open' = FALSE /\ UNCHANGED <<sequence, query, live, panel, last>>
    <2>1. queue' = <<>> /\ wire' = <<>> /\ open' = FALSE /\ UNCHANGED <<sequence, query, live, panel, last>>
      BY <1>2 DEF CloseConnection
    <2>2. astray' \subseteq AllIds
      BY <1>2, LosesTypes DEF Types
    <2>3. StreamOK'
      BY <2>1 DEF StreamOK, Types
    <2> QED  BY <2>1, <2>2, <2>3
  <1>3. Streamed \subseteq EventsOfBus /\ Events(callbacks) \subseteq EventsOfBus /\ late \subseteq EventsOfBus
    <2>1. \A i \in DOMAIN Stream : Stream[i] \in Messages
      BY StreamOfMessages
    <2>2. Streamed \subseteq EventsOfBus
      BY <2>1 DEF Streamed, Messages
    <2> QED  BY <2>2, EventsFacts DEF Types
  <1>4. CASE ConnectionBreaks
    <2>1. CloseConnection /\ Loses(Streamed) /\ UNCHANGED <<backend, callbacks, request>>
      BY <1>4 DEF ConnectionBreaks
    <2> QED  BY <1>2, <1>3, <1>4, <2>1, BoundsTypes DEF ConnectionBreaks, Types, backend
  <1>5. CASE ProcessDies
    <2>1. DbTypes(db')
      <3>1. /\ DOMAIN db = Rows \cup Runs
            /\ db' = [x \in DOMAIN db |-> CASE x \in Runs /\ db[x] \in Working -> "dead"
                                            [] x \in Runs /\ db[x] = "cancelling" -> "stranded"
                                            [] OTHER -> db[x]]
        BY <1>5 DEF ProcessDies, Types, DbTypes
      <3>2. \A x \in Rows \cup Runs : db'[x] = db[x] \/ (x \in Runs /\ db'[x] \in {"dead", "stranded"})
        BY <3>1
      <3> QED  BY <3>1, <3>2 DEF Types, DbTypes, RunStages
    <2>2. /\ CloseConnection /\ Loses(late \cup Events(callbacks) \cup Streamed)
          /\ late' = {} /\ callbacks' = <<>> /\ request' = NoRequest /\ up' = FALSE /\ latest' = latest
      BY <1>5 DEF ProcessDies
    <2>3. request' \in PanelRequests
      BY <2>2 DEF NoRequest, PanelRequests
    <2>4. late \cup Events(callbacks) \cup Streamed \in SUBSET EventsOfBus
      BY <1>3
    <2> PICK lost \in SUBSET EventsOfBus : lost = late \cup Events(callbacks) \cup Streamed
      BY <2>4
    <2>5. /\ StreamOK' /\ astray' \subseteq AllIds /\ queue' = <<>> /\ wire' = <<>>
          /\ queue' \in Seq(Messages) /\ wire' \in Seq(Messages)
          /\ Len(queue') <= QueueMax /\ Len(wire') <= WireMax
          /\ open' = FALSE /\ UNCHANGED <<sequence, query, live, panel, last>>
      BY <1>2, <2>2
    <2>6. works' \in 0 .. MaxWorks /\ happened' \in 0 .. MaxEvents
      BY <1>5, BoundsTypes DEF ProcessDies
    <2>7. live' \subseteq Rows /\ panel' \in Panels /\ query' \in Queries /\ sequence' \in Nat /\ last' \in Nat
      BY <2>5 DEF Types
    <2>8. late' \subseteq EventsOfBus /\ callbacks' \in Seq(EventsOfBus) /\ latest' \in Runs \cup {NoId}
      BY <2>2 DEF Types
    <2> QED  BY <2>1, <2>2, <2>3, <2>5, <2>6, <2>7, <2>8 DEF Types
  <1>6. CASE Restart
    BY <1>6 DEF Restart, Types, StreamOK, gateway, window, stores, bounds
  <1> QED  BY <1>1, <1>4, <1>5, <1>6

LEMMA WindowTypes ==
  ASSUME Types, Fetches \/ Shows \/ PanelAnswered \/ PanelHydrates \/ PanelResets
  PROVE  Types'
  <1>1. UNCHANGED <<backend, callbacks, gateway, last, bounds>>
    BY DEF Fetches, Shows, PanelAnswered, PanelHydrates, PanelResets
  <1>2. query' \in Queries /\ live' \subseteq Rows /\ panel' \in Panels /\ request' \in PanelRequests /\ astray' \subseteq AllIds
    <2> USE DEF Types
    <2>1. CASE Fetches
      BY <2>1 DEF Fetches, BackendAnswers, stores, Queries
    <2>2. CASE Shows
      <3>1. query' = Fresh(query.view) \/ query' = [query EXCEPT !.answer = "none"]
        BY <2>2 DEF Shows, ShowsAnswer
      <3>2. query' \in Queries
        <4>1. [query EXCEPT !.answer = "none"] \in Queries
          BY DEF Queries
        <4> QED  BY <3>1, <4>1, QueryFacts
      <3> QED  BY <2>2, <3>2 DEF Shows, ShowsAnswer, stores
    <2>3. CASE PanelAnswered
      <3> PICK gone \in SUBSET Runs : TakesRequest(gone)
        BY <2>3 DEF PanelAnswered
      <3>1. request' = NoRequest /\ live' = live /\ astray' = astray \cup ({panel'.run} \cap gone)
        BY DEF TakesRequest
      <3>2. request' \in PanelRequests /\ astray' \subseteq AllIds
        BY <3>1 DEF NoRequest, PanelRequests, AllIds
      <3>3. query' \in Queries /\ panel' \in Panels
        <4>1. CASE request.ask = "start"
          <5>1. panel' = [run |-> request.run, status |-> "thinking"] /\ Mounts(request.run)
            BY <4>1 DEF TakesRequest
          <5> QED  BY <5>1, MountsTypes DEF Panels, PanelRequests, PanelStatuses, BusyStatuses
        <4>2. CASE request.ask = "cancel"
          <5>1. panel' = [panel EXCEPT !.status = "cancelled"] /\ query' = query
            BY <4>2 DEF TakesRequest
          <5> QED  BY <5>1 DEF Panels, PanelStatuses, Over
        <4>3. CASE request.ask = "resume"
          <5>1. panel' = [panel EXCEPT !.status = "executing"] /\ Invalidated(IsMounted /\ query.view \in RunViews)
            BY <4>3 DEF TakesRequest
          <5> QED  BY <5>1, InvalidatedTypes DEF Panels, PanelStatuses, BusyStatuses
        <4> QED  BY <4>1, <4>2, <4>3 DEF TakesRequest, PanelRequests
      <3> QED  BY <3>1, <3>2, <3>3
    <2>4. CASE PanelHydrates
      <3>1. /\ panel' = [run |-> latest, status |-> Normalized(db[latest])] /\ Mounts(latest)
            /\ UNCHANGED <<live, request, astray>> /\ latest \in Runs
        BY <2>4 DEF PanelHydrates, Hydrates
      <3>2. Normalized(db[latest]) \in PanelStatuses
        BY DEF Normalized, PanelStatuses, BusyStatuses, Over
      <3> QED  BY <3>1, <3>2, MountsTypes DEF Panels
    <2>5. CASE PanelResets
      <3>1. panel' = EmptyPanel /\ Mounts(NoId) /\ UNCHANGED <<live, request, astray>>
        BY <2>5 DEF PanelResets, Resets
      <3>2. EmptyPanel \in Panels
        BY DEF EmptyPanel, Panels, PanelStatuses
      <3> QED  BY <3>1, <3>2, MountsTypes
    <2> QED  BY <2>1, <2>2, <2>3, <2>4, <2>5
  <1> QED  BY <1>1, <1>2 DEF Types, backend, gateway, bounds

\* _fan_out: what happens to the buffer.
LEMMA BufferFacts ==
  ASSUME Types, StreamOK, open, NEW m \in Messages, m.seq = sequence + 1
  PROVE  /\ Buffered(queue, m) \in Seq(Messages) /\ Len(Buffered(queue, m)) <= QueueMax
         /\ Len(Buffered(queue, m)) <= sequence + 1
         /\ \A i \in 1 .. Len(Buffered(queue, m)) :
              Buffered(queue, m)[i].seq = sequence + 1 - Len(Buffered(queue, m)) + i
         /\ sequence - Len(queue) <= sequence + 1 - Len(Buffered(queue, m))
         /\ m \in Events(Buffered(queue, m))
         /\ Events(Buffered(queue, m)) \subseteq Events(queue) \cup {m}
         /\ \A x \in Events(queue) \ Events(Buffered(queue, m)) :
              x \notin Events(wire) /\ \E n \in Events(Buffered(queue, m)) : n.seq = x.seq + 1
  <1>1. queue \in Seq(Messages) /\ Len(queue) \in Nat /\ sequence \in Nat /\ Len(queue) <= QueueMax /\ QueueMax \in Nat \ {0}
    BY DEF Types
  <1>2. \A i \in 1 .. Len(queue) : queue[i].seq = sequence - Len(queue) + i
    BY DEF StreamOK
  <1> PICK b : b = Buffered(queue, m)
    OBVIOUS
  <1>3. CASE Len(queue) < QueueMax
    <2>1. b = Append(queue, m)
      BY <1>3 DEF Buffered
    <2>2. b \in Seq(Messages) /\ Len(b) = Len(queue) + 1 /\ Events(b) = Events(queue) \cup {m}
          /\ (\A i \in 1 .. Len(queue) : b[i] = queue[i]) /\ b[Len(queue) + 1] = m
      BY <2>1, <1>1, EventsOfAppend
    <2>3. \A i \in 1 .. Len(b) : b[i].seq = sequence + 1 - Len(b) + i
      BY <2>2, <1>1, <1>2
    <2>4. Len(b) <= sequence + 1
      BY <2>2, <1>1 DEF StreamOK
    <2> QED  BY <2>2, <2>3, <2>4, <1>1, <1>3
  <1>4. CASE ~(Len(queue) < QueueMax)
    <2>1. b = Append(Tail(queue), m) /\ Len(queue) = QueueMax /\ queue # <<>>
      BY <1>1, <1>4 DEF Buffered
    <2> PICK t : t = Tail(queue)
      OBVIOUS
    <2>2. t \in Seq(Messages) /\ Len(t) = Len(queue) - 1 /\ Head(queue) = queue[1] /\ Head(queue) \in Messages
          /\ Events(queue) = {Head(queue)} \cup Events(t) /\ \A i \in 1 .. Len(queue) - 1 : t[i] = queue[i + 1]
      BY <2>1, <1>1, EventsOfTail
    <2>3. b \in Seq(Messages) /\ Len(b) = Len(t) + 1 /\ Events(b) = Events(t) \cup {m}
          /\ (\A i \in 1 .. Len(t) : b[i] = t[i]) /\ b[Len(t) + 1] = m
      <3>1. b = Append(t, m)
        BY <2>1
      <3>2. t \in Seq(Messages) /\ m \in Messages
        BY <2>2
      <3>3. Append(t, m) \in Seq(Messages) /\ Len(Append(t, m)) = Len(t) + 1
            /\ Events(Append(t, m)) = Events(t) \cup {m}
            /\ (\A i \in 1 .. Len(t) : Append(t, m)[i] = t[i]) /\ Append(t, m)[Len(t) + 1] = m
        BY ONLY <3>2, EventsOfAppend
      <3> QED  BY ONLY <3>1, <3>3
    <2>4. \A i \in 1 .. Len(b) : b[i].seq = sequence + 1 - Len(b) + i
      <3> SUFFICES ASSUME NEW i \in 1 .. Len(b)  PROVE b[i].seq = sequence + 1 - Len(b) + i
        OBVIOUS
      <3>1. CASE i = Len(b)
        BY <3>1, <2>3, <1>1
      <3>2. CASE i # Len(b)
        <4>1. i \in 1 .. Len(t) /\ i + 1 \in 1 .. Len(queue) /\ b[i] = queue[i + 1]
          BY <3>2, <2>2, <2>3, <1>1
        <4> QED  BY <4>1, <1>1, <1>2, <2>2, <2>3
      <3> QED  BY <3>1, <3>2
    <2>5. Len(b) = Len(queue) /\ Len(b) <= sequence + 1
      BY <2>2, <2>3, <1>1 DEF StreamOK
    <2>6. ASSUME NEW x \in Events(queue) \ Events(b)
          PROVE  x \notin Events(wire) /\ \E n \in Events(b) : n.seq = x.seq + 1
      <3>1. x = queue[1] /\ x.seq = sequence - Len(queue) + 1
        BY <2>2, <2>3, <2>6, <2>1, <1>1, <1>2
      <3>2. b[1].seq = x.seq + 1 /\ 1 \in DOMAIN b
        BY <3>1, <2>3, <2>4, <2>5, <1>1, <2>1
      <3>3. b[1] \in Events(b)
        BY <3>2 DEF Events
      <3>4. x \notin Events(wire)
        <4>1. \A y \in Events(wire) : y.seq <= sequence - Len(queue)
          BY StreamFacts
        <4> QED  BY <4>1, <3>1, <1>1
      <3> QED  BY <3>2, <3>3, <3>4
    <2> QED  BY <2>2, <2>3, <2>4, <2>5, <2>6, <1>1
  <1> QED  BY <1>3, <1>4

\* What a fan-out to the connection puts on its way and what it drops.
LEMMA FanOutFacts ==
  ASSUME Types, StreamOK, FanOut, open, NEW m, m = Message(sequence + 1, Head(callbacks))
  PROVE  /\ m \in Messages /\ m.seq = sequence + 1 /\ m.event = Head(callbacks) /\ m.event \in EventsOfBus
         /\ callbacks # <<>> /\ callbacks' = Tail(callbacks)
         /\ queue' = Buffered(queue, m) /\ sequence' = sequence + 1
         /\ m \in OnItsWay' /\ OnItsWay' \subseteq OnItsWay \cup {m}
         /\ \A x \in OnItsWay \ OnItsWay' : x \in Events(queue) \ Events(queue')
         /\ \A x \in OnItsWay \ OnItsWay' : \E n \in OnItsWay' : n.seq = x.seq + 1
         /\ astray \subseteq astray'
         /\ \A x \in OnItsWay \ OnItsWay' : Corrects(x.event) => x.event.id \in astray'
         /\ m.seq <= last /\ Corrects(m.event) => m.event.id \in astray'
         /\ query' = [query EXCEPT !.unheard = query.unheard \/ (query.behind /\ m.seq <= last /\ Invalidates(m.event))]
         /\ UNCHANGED <<backend, open, wire, live, panel, request, last, bounds>>
  <1> PICK e : e = Head(callbacks)
    OBVIOUS
  <1>1. callbacks # <<>> /\ callbacks' = Tail(callbacks) /\ UNCHANGED <<backend, open, wire, live, panel, request, last, bounds>>
    BY DEF FanOut
  <1>2. e \in EventsOfBus
    BY <1>1, EventsOfTail DEF Types
  <1>3. m \in Messages /\ m.seq = sequence + 1 /\ m.event = e
    BY <1>2, NewEvents DEF Types
  <1> DEFINE ignored == IF open /\ Classify(m.seq) = "dupe" THEN {e} ELSE {}
             dropped == {x.event : x \in Events(queue) \ Events(Buffered(queue, m))}
  <1>4. /\ sequence' = m.seq /\ queue' = Buffered(queue, m)
        /\ query' = [query EXCEPT !.unheard = @ \/ (query.behind /\ \E x \in ignored : Invalidates(x))]
        /\ Loses(ignored \cup dropped)
    BY DEF FanOut
  <1>5. Classify(m.seq) = "dupe" <=> m.seq <= last
    <2>1. m.seq \in Nat /\ last \in Nat
      BY <1>3 DEF Types
    <2> QED  BY <2>1 DEF Classify
  <1>6. (\E x \in ignored : Invalidates(x)) <=> m.seq <= last /\ Invalidates(m.event)
    BY <1>3, <1>5
  <1>7. query' = [query EXCEPT !.unheard = query.unheard \/ (query.behind /\ m.seq <= last /\ Invalidates(m.event))]
    BY <1>4, <1>6
  <1>8. /\ m \in Events(queue') /\ Events(queue') \subseteq Events(queue) \cup {m}
        /\ \A x \in Events(queue) \ Events(queue') : x \notin Events(wire) /\ \E n \in Events(queue') : n.seq = x.seq + 1
    BY <1>3, <1>4, BufferFacts
  <1>9. /\ m \in OnItsWay' /\ OnItsWay' \subseteq OnItsWay \cup {m}
        /\ \A x \in OnItsWay \ OnItsWay' : x \in Events(queue) \ Events(queue')
    BY <1>1, <1>8 DEF OnItsWay
  <1>10. \A x \in OnItsWay \ OnItsWay' : \E n \in OnItsWay' : n.seq = x.seq + 1
    BY <1>1, <1>8, <1>9 DEF OnItsWay
  <1>11. astray' = astray \cup {f.id : f \in {g \in ignored \cup dropped : Corrects(g)}}
    BY <1>4 DEF Loses
  <1>12. \A x \in OnItsWay \ OnItsWay' : x.event \in dropped
    BY <1>4, <1>9
  <1>13. m.seq <= last => m.event \in ignored
    BY <1>3, <1>5
  <1> HIDE DEF ignored, dropped
  <1>14. /\ \A x \in OnItsWay \ OnItsWay' : Corrects(x.event) => x.event.id \in astray'
         /\ m.seq <= last /\ Corrects(m.event) => m.event.id \in astray'
    BY <1>11, <1>12, <1>13
  <1> QED  BY <1>1, <1>2, <1>3, <1>4, <1>7, <1>9, <1>10, <1>11, <1>14

LEMMA FanOutTypes ==
  ASSUME Types, StreamOK, FanOut
  PROVE  Types' /\ StreamOK'
  <1>1. callbacks # <<>> /\ callbacks' = Tail(callbacks) /\ UNCHANGED <<backend, open, wire, live, panel, request, last, bounds>>
    BY DEF FanOut
  <1>2. callbacks' \in Seq(EventsOfBus) /\ Head(callbacks) \in EventsOfBus
    BY <1>1, EventsOfTail DEF Types
  <1> PICK e \in EventsOfBus : e = Head(callbacks)
    BY <1>2
  <1>3. CASE open
    <2> PICK m : m = Message(sequence + 1, Head(callbacks))
      OBVIOUS
    <2>1. /\ m \in Messages /\ m.seq = sequence + 1 /\ queue' = Buffered(queue, m) /\ sequence' = sequence + 1
          /\ query' = [query EXCEPT !.unheard = query.unheard \/ (query.behind /\ m.seq <= last /\ Invalidates(m.event))]
      BY <1>3, FanOutFacts
    <2>2. /\ queue' \in Seq(Messages) /\ Len(queue') <= QueueMax /\ Len(queue') <= sequence'
          /\ \A i \in 1 .. Len(queue') : queue'[i].seq = sequence' - Len(queue') + i
          /\ sequence - Len(queue) <= sequence' - Len(queue')
      <3> PICK b : b = Buffered(queue, m)
        OBVIOUS
      <3>1. /\ b \in Seq(Messages) /\ Len(b) <= QueueMax /\ Len(b) <= sequence + 1
            /\ \A i \in 1 .. Len(b) : b[i].seq = sequence + 1 - Len(b) + i
            /\ sequence - Len(queue) <= sequence + 1 - Len(b)
        BY <1>3, <2>1, BufferFacts
      <3>2. queue' = b
        BY <2>1
      <3>3. PICK k : k = sequence + 1
        OBVIOUS
      <3>4. sequence' = k
        BY <2>1, <3>3
      <3>5. /\ b \in Seq(Messages) /\ Len(b) <= QueueMax /\ Len(b) <= k
            /\ \A i \in 1 .. Len(b) : b[i].seq = k - Len(b) + i
            /\ sequence - Len(queue) <= k - Len(b)
        <4>1. sequence \in Nat /\ Len(b) \in Nat /\ Len(queue) \in Nat
          BY <3>1 DEF Types
        <4> QED  BY ONLY <3>1, <3>3, <4>1
      <3> QED  BY ONLY <3>2, <3>4, <3>5
    <2>3. \A i \in 1 .. Len(wire) : wire[i].seq <= sequence' - Len(queue')
      <3> SUFFICES ASSUME NEW i \in 1 .. Len(wire)  PROVE wire[i].seq <= sequence' - Len(queue')
        OBVIOUS
      <3>1. wire[i] \in Messages
        BY DEF Types
      <3>2. wire[i].seq \in Nat
        BY <3>1 DEF Messages
      <3>3. Len(queue) \in Nat /\ Len(queue') \in Nat /\ sequence \in Nat
        BY <2>2 DEF Types
      <3> QED  BY <2>1, <2>2, <3>2, <3>3 DEF StreamOK
    <2>4. query' \in Queries
      <3>1. (query.unheard \/ (query.behind /\ m.seq <= last /\ Invalidates(m.event))) \in BOOLEAN
        OBVIOUS
      <3> QED  BY <2>1, <3>1, QueryFacts DEF Types
    <2>5. astray' \subseteq AllIds
      <3> DEFINE lost == (IF open /\ Classify(m.seq) = "dupe" THEN {e} ELSE {})
                         \cup {x.event : x \in Events(queue) \ Events(Buffered(queue, m))}
      <3>1. Loses(lost)
        BY <1>3 DEF FanOut
      <3>2. lost \in SUBSET EventsOfBus
        <4>1. \A x \in Events(queue) : x \in Messages
          BY EventsFacts DEF Types
        <4>2. \A x \in Messages : x.event \in EventsOfBus
          BY DEF Messages
        <4> QED  BY <4>1, <4>2
      <3> QED  BY <3>1, <3>2, LosesTypes DEF Types
    <2>6. StreamOK'
      BY <1>1, <1>3, <2>2, <2>3 DEF StreamOK
    <2>7. sequence' \in Nat /\ wire' = wire /\ open' = open /\ last' = last /\ live' = live /\ panel' = panel
      BY <1>1, <2>1 DEF Types
    <2> QED  BY <1>1, <1>2, <2>2, <2>4, <2>5, <2>6, <2>7 DEF Types, backend, bounds
  <1>4. CASE ~open
    <2>1. UNCHANGED <<sequence, queue, query>> /\ Loses({e})
      BY <1>4 DEF FanOut
    <2>2. astray' \subseteq AllIds
      BY <2>1, LosesTypes DEF Types
    <2>3. StreamOK'
      BY <1>1, <2>1 DEF StreamOK
    <2> QED  BY <1>1, <1>2, <2>1, <2>2, <2>3 DEF Types, backend, bounds
  <1> QED  BY <1>3, <1>4

LEMMA SenderFacts ==
  ASSUME Types, StreamOK, SenderSends
  PROVE  /\ Types' /\ StreamOK' /\ OnItsWay' = OnItsWay
         /\ UNCHANGED <<backend, callbacks, open, sequence, window, last, bounds>>
  <1> PICK m : m = Head(queue)
    OBVIOUS
  <1>1. /\ queue # <<>> /\ Len(wire) < WireMax /\ wire' = Append(wire, m) /\ queue' = Tail(queue)
        /\ UNCHANGED <<backend, callbacks, open, sequence, window, last, bounds>>
    BY DEF SenderSends
  <1>2. /\ queue' \in Seq(Messages) /\ Len(queue') = Len(queue) - 1 /\ Len(queue) >= 1
        /\ m \in Messages /\ m = queue[1] /\ Events(queue) = {m} \cup Events(queue')
        /\ \A i \in 1 .. Len(queue) - 1 : queue'[i] = queue[i + 1]
    BY <1>1, EventsOfTail DEF Types
  <1>3. /\ wire' \in Seq(Messages) /\ Len(wire') = Len(wire) + 1 /\ Events(wire') = Events(wire) \cup {m}
        /\ (\A i \in 1 .. Len(wire) : wire'[i] = wire[i]) /\ wire'[Len(wire) + 1] = m
    BY <1>1, <1>2, EventsOfAppend DEF Types
  <1>4. OnItsWay' = OnItsWay
    BY <1>2, <1>3 DEF OnItsWay
  <1>5. Len(wire) \in Nat /\ Len(queue) \in Nat /\ sequence \in Nat /\ WireMax \in Nat
    BY DEF Types
  <1>6. Types'
    BY <1>1, <1>2, <1>3, <1>5 DEF Types, backend, window, stores, bounds
  <1>7. StreamOK'
    <2>1. m.seq = sequence - Len(queue) + 1
      BY <1>2, <1>5 DEF StreamOK
    <2>2. \A i \in 1 .. Len(wire) : wire[i] \in Messages /\ wire[i].seq \in Nat
      <3>1. \A i \in 1 .. Len(wire) : wire[i] \in Messages
        BY DEF Types
      <3> QED  BY <3>1 DEF Messages
    <2>3. \A i \in 1 .. Len(wire) : wire'[i].seq <= sequence - Len(queue)
      BY <1>3 DEF StreamOK
    <2>4. \A i \in 1 .. Len(wire') : wire'[i].seq <= sequence - Len(queue')
      <3> SUFFICES ASSUME NEW i \in 1 .. Len(wire')  PROVE wire'[i].seq <= sequence - Len(queue')
        OBVIOUS
      <3>1. CASE i \in 1 .. Len(wire)
        BY <3>1, <1>2, <1>3, <1>5, <2>2, <2>3
      <3>2. CASE i = Len(wire) + 1
        BY <3>2, <1>2, <1>3, <1>5, <2>1
      <3> QED  BY <3>1, <3>2, <1>3, <1>5
    <2>5. \A i, j \in 1 .. Len(wire') : i < j => wire'[i].seq < wire'[j].seq
      <3> SUFFICES ASSUME NEW i \in 1 .. Len(wire'), NEW j \in 1 .. Len(wire'), i < j  PROVE wire'[i].seq < wire'[j].seq
        OBVIOUS
      <3>1. i \in 1 .. Len(wire)
        BY <1>3, <1>5
      <3>2. CASE j \in 1 .. Len(wire)
        BY <3>1, <3>2, <1>3 DEF StreamOK
      <3>3. CASE j = Len(wire) + 1
        BY <3>1, <3>3, <1>3, <1>5, <2>1, <2>2, <2>3
      <3> QED  BY <3>2, <3>3, <1>3, <1>5
    <2>6. \A i \in 1 .. Len(queue') : queue'[i].seq = sequence - Len(queue') + i
      <3> SUFFICES ASSUME NEW i \in 1 .. Len(queue')  PROVE queue'[i].seq = sequence - Len(queue') + i
        OBVIOUS
      <3>1. i + 1 \in 1 .. Len(queue) /\ queue'[i] = queue[i + 1]
        BY <1>2, <1>5
      <3> QED  BY <3>1, <1>2, <1>5 DEF StreamOK
    <2>7. Len(queue') <= sequence
      BY <1>2, <1>5 DEF StreamOK
    <2>8. open
      BY <1>1 DEF StreamOK
    <2> QED  BY <1>1, <2>4, <2>5, <2>6, <2>7, <2>8 DEF StreamOK
  <1> QED  BY <1>1, <1>4, <1>6, <1>7

\* The client receives what has the smallest number.
LEMMA ReceiveFacts ==
  ASSUME Types, StreamOK, Receive, NEW m, m = Head(wire)
  PROVE  /\ m \in Messages /\ m \in OnItsWay /\ m.seq \in Nat /\ m.event \in EventsOfBus /\ wire # <<>>
         /\ OnItsWay' = OnItsWay \ {m} /\ \A n \in OnItsWay \ {m} : n.seq > m.seq
         /\ UNCHANGED <<backend, callbacks, open, queue, sequence, bounds>>
         /\ wire' = Tail(wire)
         /\ \/ m.seq > last /\ last' = m.seq /\ Route(m.event, m.seq > last + 1)
            \/ m.seq <= last /\ UNCHANGED <<last, window>>
  <1>1. /\ wire # <<>> /\ wire' = Tail(wire) /\ HandleMessage(m)
        /\ UNCHANGED <<backend, callbacks, open, queue, sequence, bounds>>
    BY DEF Receive
  <1>2. /\ wire' \in Seq(Messages) /\ Len(wire') = Len(wire) - 1 /\ Len(wire) >= 1
        /\ m \in Messages /\ m = wire[1] /\ Events(wire) = {m} \cup Events(wire')
        /\ \A i \in 1 .. Len(wire) - 1 : wire'[i] = wire[i + 1]
    BY <1>1, EventsOfTail DEF Types
  <1>3. m.seq \in Nat /\ m.event \in EventsOfBus /\ last \in Nat
    BY <1>2 DEF Messages, Types
  <1>4. Len(wire) \in Nat /\ Len(queue) \in Nat /\ sequence \in Nat
    BY DEF Types
  <1>5. \A n \in Events(wire') : n.seq > m.seq
    <2> SUFFICES ASSUME NEW n \in Events(wire')  PROVE n.seq > m.seq
      OBVIOUS
    <2>1. PICK i \in 1 .. Len(wire') : n = wire'[i]
      BY <1>2, EventsFacts
    <2>2. 1 \in 1 .. Len(wire) /\ i + 1 \in 1 .. Len(wire) /\ 1 < i + 1 /\ n = wire[i + 1]
      BY <2>1, <1>2, <1>4
    <2>3. m.seq < n.seq
      BY <2>2, <1>2 DEF StreamOK
    <2>4. n \in Messages
      BY <1>2, EventsFacts
    <2> QED  BY <2>3, <2>4, <1>3 DEF Messages
  <1>6. \A n \in Events(queue) : n.seq > m.seq
    <2>1. m \in Events(wire)
      BY <1>2
    <2>2. m.seq <= sequence - Len(queue)
      BY <2>1, StreamFacts
    <2> SUFFICES ASSUME NEW n \in Events(queue)  PROVE n.seq > m.seq
      OBVIOUS
    <2>3. n.seq \in Nat /\ n.seq > sequence - Len(queue)
      BY StreamFacts DEF OnItsWay
    <2> QED  BY <2>2, <2>3, <1>3, <1>4
  <1>7. OnItsWay' = OnItsWay \ {m} /\ m \in OnItsWay
    <2>1. m \notin Events(wire') /\ m \notin Events(queue)
      BY <1>3, <1>5, <1>6
    <2> QED  BY <2>1, <1>1, <1>2 DEF OnItsWay
  <1>8. \A n \in OnItsWay \ {m} : n.seq > m.seq
    BY <1>2, <1>5, <1>6 DEF OnItsWay
  <1>9. /\ Classify(m.seq) = "dupe" <=> m.seq <= last
        /\ Classify(m.seq) = "gap" <=> m.seq > last + 1
    BY <1>3 DEF Classify
  <1>10. CASE m.seq > last
    <2>1. WellFormed(m)
      BY <1>3, <1>10 DEF WellFormed, Greeting, Message
    <2>2. last' = m.seq /\ Route(m.event, Classify(m.seq) = "gap")
      BY <1>1, <1>3, <1>9, <1>10, <2>1 DEF HandleMessage
    <2>3. (Classify(m.seq) = "gap") = (m.seq > last + 1)
      BY <1>9
    <2>4. Route(m.event, m.seq > last + 1)
      BY <2>2, <2>3
    <2> QED  BY <1>1, <1>2, <1>3, <1>7, <1>8, <1>10, <2>2, <2>4
  <1>11. CASE m.seq <= last
    <2>1. UNCHANGED <<last, window>>
      BY <1>1, <1>9, <1>11 DEF HandleMessage
    <2> QED  BY <1>1, <1>2, <1>3, <1>7, <1>8, <1>11, <2>1
  <1> QED  BY <1>3, <1>10, <1>11

LEMMA StatusTypes ==
  ASSUME NEW e, panel \in Panels
  PROVE  StatusAfter(e) \in PanelStatuses
  BY DEF StatusAfter, PanelStatuses, BusyStatuses, Over, Panels

LEMMA RouteTypes ==
  ASSUME Types, NEW e \in EventsOfBus, NEW gap, Route(e, gap)
  PROVE  /\ query' \in Queries /\ query'.view = query.view /\ live' \subseteq Rows /\ panel' \in Panels
         /\ request' \in PanelRequests /\ astray' \subseteq AllIds
  <1>1. query' \in Queries /\ query'.view = query.view
    BY InvalidatedTypes DEF Types, Route
  <1>2. live' \subseteq Rows
    BY EventFacts DEF Types, Route, LiveAfter, OfRows
  <1>3. panel' \in Panels
    <2> PICK st \in PanelStatuses : st = StatusAfter(e)
      BY StatusTypes DEF Types
    <2>1. panel' = [panel EXCEPT !.status = st]
      BY DEF Route
    <2> QED  BY <2>1 DEF Types, Panels
  <1>4. astray' \subseteq AllIds
    BY DEF Types, Route, Panels, AllIds
  <1> QED  BY <1>1, <1>2, <1>3, <1>4 DEF Types, Route

LEMMA ReceiveTypes ==
  ASSUME Types, StreamOK, Receive
  PROVE  Types' /\ StreamOK'
  <1> PICK m : m = Head(wire)
    OBVIOUS
  <1>1. /\ m \in Messages /\ m.seq \in Nat /\ m.event \in EventsOfBus /\ wire # <<>>
        /\ UNCHANGED <<backend, callbacks, open, queue, sequence, bounds>>
        /\ wire' = Tail(wire)
        /\ \/ m.seq > last /\ last' = m.seq /\ Route(m.event, m.seq > last + 1)
           \/ m.seq <= last /\ UNCHANGED <<last, window>>
    BY ReceiveFacts
  <1>2. /\ wire' \in Seq(Messages) /\ Len(wire') = Len(wire) - 1 /\ Len(wire) >= 1
        /\ \A i \in 1 .. Len(wire) - 1 : wire'[i] = wire[i + 1]
    BY <1>1, EventsOfTail DEF Types
  <1>3. /\ query' \in Queries /\ live' \subseteq Rows /\ panel' \in Panels
        /\ request' \in PanelRequests /\ astray' \subseteq AllIds
    BY <1>1, RouteTypes DEF Types, window, stores
  <1>4. Len(wire) \in Nat /\ Len(queue) \in Nat /\ sequence \in Nat /\ last' \in Nat /\ Len(wire') <= WireMax
    BY <1>1, <1>2 DEF Types
  <1>5. Types'
    BY <1>1, <1>2, <1>3, <1>4 DEF Types, backend, bounds
  <1>6. StreamOK'
    <2>1. \A i \in 1 .. Len(wire') : i + 1 \in 1 .. Len(wire) /\ wire'[i] = wire[i + 1]
      BY <1>2, <1>4
    <2>2. \A i \in 1 .. Len(wire') : wire'[i].seq <= sequence - Len(queue)
      BY <2>1 DEF StreamOK
    <2>3. \A i, j \in 1 .. Len(wire') : i < j => wire'[i].seq < wire'[j].seq
      <3> SUFFICES ASSUME NEW i \in 1 .. Len(wire'), NEW j \in 1 .. Len(wire'), i < j  PROVE wire'[i].seq < wire'[j].seq
        OBVIOUS
      <3>1. i + 1 < j + 1
        OBVIOUS
      <3> QED  BY <3>1, <2>1 DEF StreamOK
    <2>4. open
      BY <1>1 DEF StreamOK
    <2> QED  BY <1>1, <2>2, <2>3, <2>4 DEF StreamOK
  <1> QED  BY <1>5, <1>6

LEMMA NextTypes ==
  ASSUME Types, StreamOK, [Next]_vars
  PROVE  Types' /\ StreamOK'
  <1>1. CASE UNCHANGED vars
    BY <1>1 DEF vars, backend, gateway, window, stores, bounds, Types, StreamOK
  <1>2. ASSUME UNCHANGED gateway  PROVE StreamOK'
    BY <1>2 DEF gateway, StreamOK
  <1>3. ASSUME NEW r \in Rows, OfRow(r)  PROVE Types' /\ StreamOK'
    <2>1. UNCHANGED gateway
      BY <1>3 DEF OfRow, CreatesRow, Starts, Completes, Interrupts, ThreadCommits, WritesAndPublishes
    <2> QED  BY <1>2, <1>3, <2>1, RowTypes
  <1>4. ASSUME NEW d \in Runs, OfRun(d)  PROVE Types' /\ StreamOK'
    <2>1. UNCHANGED gateway
      BY <1>4 DEF OfRun, Submits, OthersSubmit, Plans, ActsInRun, Parks, EndsRun, Expires, Cancels, Resumes, Serves,
                  ThreadCommits, WritesAndPublishes
    <2> QED  BY <1>2, <1>4, <2>1, RunTypes
  <1>5. ASSUME NEW kind \in Kinds, Changes(kind)  PROVE Types' /\ StreamOK'
    BY <1>2, <1>5, ChangesTypes DEF Changes, ThreadCommits
  <1>6. ASSUME NEW e, ThreadPublishes(e)  PROVE Types' /\ StreamOK'
    BY <1>2, <1>6, PublishesTypes DEF ThreadPublishes
  <1>7. ASSUME Fetches \/ Shows \/ PanelAnswered \/ PanelHydrates \/ PanelResets
        PROVE  Types' /\ StreamOK'
    <2>1. UNCHANGED gateway
      BY <1>7 DEF Fetches, Shows, PanelAnswered, PanelHydrates, PanelResets
    <2> QED  BY <1>2, <1>7, <2>1, WindowTypes
  <1> QED
    BY <1>1, <1>3, <1>4, <1>5, <1>6, <1>7, FanOutTypes, SenderFacts, ReceiveTypes, ConnectionTypes
       DEF Next, Delivers

-----------------------------------------------------------------------------
(* The query.                                                              *)

LEMMA InvalidatesStable ==
  ASSUME query'.view = query.view, panel'.run = panel.run \/ query.view \notin RunViews
  PROVE  \A e : Invalidates(e)' <=> Invalidates(e)
  <1> SUFFICES ASSUME NEW e  PROVE Invalidates(e)' <=> Invalidates(e)
    OBVIOUS
  <1>1. CASE panel'.run = panel.run
    BY <1>1 DEF Invalidates, InvalidatesOfAgent, InvalidatesOfGeneration, InvalidatesOfResource
  <1>2. CASE query.view \notin RunViews
    <2>1. query.view \in InvalidatesOfAgent(e)' <=> query.view \in InvalidatesOfAgent(e)
      BY <1>2 DEF InvalidatesOfAgent
    <2>2. /\ InvalidatesOfGeneration(e)' = InvalidatesOfGeneration(e)
          /\ InvalidatesOfResource(e)' = InvalidatesOfResource(e)
      BY DEF InvalidatesOfGeneration, InvalidatesOfResource
    <2> QED  BY <2>1, <2>2 DEF Invalidates
  <1> QED  BY <1>1, <1>2

\* Whatever keeps what is on its way and what is due keeps the query's invariant.
LEMMA QueryKept ==
  ASSUME MountOK, QueryOK, query'.view = query.view, panel'.run = panel.run \/ query.view \notin RunViews,
         query'.behind => query.behind, query.unheard => query'.unheard, open' => open,
         query.due => query'.due, query.answer = "current" => query'.answer = "current" \/ query'.due,
         \A e \in WillCome : Invalidates(e) => e \in WillCome' \/ Missing' \/ query'.unheard \/ query'.due,
         Missing => Missing' \/ query'.due
  PROVE  MountOK' /\ QueryOK'
  <1>1. \A e : Invalidates(e)' <=> Invalidates(e)
    BY InvalidatesStable
  <1>2. MountOK'
    BY DEF MountOK, IsMounted
  <1>3. QueryOK'
    BY <1>1 DEF QueryOK
  <1> QED  BY <1>2, <1>3

\* A commit whose event is scheduled, if the router has a case for it.
LEMMA CommitsKeeps ==
  ASSUME query \in Queries, MountOK, QueryOK, NEW e, Commits(e), panel' = panel, UNCHANGED <<gateway, last>>,
         WillCome \subseteq WillCome', Invalidates(e) => e \in WillCome'
  PROVE  MountOK' /\ QueryOK'
  <1>1. open' = open /\ (Missing => Missing') /\ panel'.run = panel.run
    BY DEF gateway, Missing, OnItsWay
  <1>2. CASE query' = query
    BY <1>1, <1>2, QueryKept
  <1>3. CASE /\ query' = [query EXCEPT !.behind = TRUE, !.answer = IF @ = "none" THEN "none" ELSE "old",
                                       !.unheard = @ \/ ~Invalidates(e)]
             /\ IsAbout(e)
    <2> PICK u \in BOOLEAN : u = (query.unheard \/ ~Invalidates(e))
      OBVIOUS
    <2> PICK a : a = IF query.answer = "none" THEN "none" ELSE "old"
      OBVIOUS
    <2>1. query' = [query EXCEPT !.behind = TRUE, !.answer = a, !.unheard = u]
      BY <1>3
    <2>2. query'.view = query.view /\ query'.unheard = u
      BY <2>1 DEF Queries
    <2>3. \A f : Invalidates(f)' <=> Invalidates(f)
      BY <1>1, <2>2, InvalidatesStable
    <2>4. MountOK'
      BY <1>1, <1>3, <2>2 DEF MountOK, IsAbout, IsMounted
    <2>5. QueryOK'
      <3>1. ~query'.unheard => Invalidates(e)' /\ e \in WillCome'
        BY <2>2, <2>3
      <3> QED  BY <3>1 DEF QueryOK
    <2> QED  BY <2>4, <2>5
  <1> QED  BY <1>2, <1>3 DEF Commits

LEMMA MountsKeeps ==
  ASSUME query \in Queries, MountOK, QueryOK, NEW run, Mounts(run), panel'.run = run,
         UNCHANGED <<gateway, last, late, callbacks>>
  PROVE  MountOK' /\ QueryOK'
  <1>1. open' = open /\ WillCome' = WillCome /\ Missing' = Missing
    BY DEF gateway, Missing, OnItsWay, WillCome, TakenEvents, Taken
  <1>2. CASE run = panel.run \/ query.view \notin RunViews
    BY <1>1, <1>2, QueryKept DEF Mounts
  <1>3. CASE ~(run = panel.run \/ query.view \notin RunViews)
    <2> PICK b \in BOOLEAN : b = (run # NoId)
      OBVIOUS
    <2>1. query' = [Fresh(query.view) EXCEPT !.behind = b, !.due = b]
      BY <1>3 DEF Mounts
    <2>2. query'.behind = b /\ query'.due = b /\ query'.view = query.view
      BY <2>1 DEF Fresh
    <2> QED  BY <2>2 DEF MountOK, QueryOK, IsMounted
  <1> QED  BY <1>2, <1>3


-----------------------------------------------------------------------------
(* What the backend's actions do: they schedule events es on the loop, leave *)
(* events ls to a thread, and touch the row or the run y only.              *)

Effect(y, es, ls) ==
  /\ callbacks' = callbacks \o es
  /\ late' = late \cup ls
  /\ UNCHANGED <<gateway, last, live, panel>>
  /\ astray \subseteq astray'
  /\ \A x \in Rows \cup Runs : x # y => db'[x] = db[x]
  /\ \A e \in Events(es) \cup ls : e.id \in {y, NoId}

\* The event of the end of y follows everything else.
EndsLast(y, es, ls) == \E e : EndsOf(y, e) /\ ~Busies(e) /\ ((es = <<e>> /\ ls = {}) \/ (es = <<>> /\ ls = {e}))

LEMMA EffectFacts ==
  ASSUME Types, NEW y, NEW es \in Seq(EventsOfBus), NEW ls \in SUBSET EventsOfBus, Effect(y, es, ls)
  PROVE  /\ OnItsWay' = OnItsWay /\ Taken' = Taken /\ Missing' = Missing
         /\ WillCome' = WillCome \cup Events(es) \cup ls
         /\ DOMAIN callbacks = 1 .. Len(callbacks) /\ Len(callbacks) \in Nat /\ Len(es) \in Nat
         /\ DOMAIN callbacks' = 1 .. Len(callbacks) + Len(es)
         /\ \A i \in DOMAIN callbacks : callbacks'[i] = callbacks[i]
         /\ \A i \in 1 .. Len(es) : callbacks'[Len(callbacks) + i] = es[i]
         /\ \A i \in DOMAIN callbacks' \ DOMAIN callbacks : callbacks'[i] \in Events(es)
  <1>1. callbacks \in Seq(EventsOfBus)
    BY DEF Types
  <1> PICK t : t = callbacks \o es
    OBVIOUS
  <1>2. /\ t \in Seq(EventsOfBus) /\ Len(t) = Len(callbacks) + Len(es)
        /\ Events(t) = Events(callbacks) \cup Events(es)
        /\ \A i \in 1 .. Len(callbacks) : t[i] = callbacks[i]
        /\ \A i \in 1 .. Len(es) : t[Len(callbacks) + i] = es[i]
    BY <1>1, EventsOfConcat
  <1>3. callbacks' = t /\ late' = late \cup ls /\ UNCHANGED <<gateway, last>>
    BY DEF Effect
  <1>4. OnItsWay' = OnItsWay /\ Taken' = Taken /\ Missing' = Missing
    BY <1>3 DEF gateway, OnItsWay, Taken, Missing
  <1>5. WillCome' = WillCome \cup Events(es) \cup ls
    <2>1. TakenEvents' = TakenEvents
      BY <1>4 DEF TakenEvents
    <2>2. Events(callbacks)' = Events(callbacks) \cup Events(es)
      BY <1>2, <1>3
    <2> QED  BY <1>3, <2>1, <2>2 DEF WillCome
  <1>6. DOMAIN callbacks = 1 .. Len(callbacks) /\ Len(callbacks) \in Nat /\ Len(es) \in Nat /\ DOMAIN t = 1 .. Len(t)
    BY <1>1, <1>2
  <1>7. \A i \in DOMAIN t \ DOMAIN callbacks : t[i] \in Events(es)
    <2> SUFFICES ASSUME NEW i \in DOMAIN t \ DOMAIN callbacks  PROVE t[i] \in Events(es)
      OBVIOUS
    <2>1. i - Len(callbacks) \in 1 .. Len(es) /\ t[i] = es[i - Len(callbacks)]
      BY <1>2, <1>6
    <2> QED  BY <2>1, EventsFacts
  <1> QED  BY <1>2, <1>3, <1>4, <1>5, <1>6, <1>7

LEMMA NothingScheduled ==
  ASSUME Types
  PROVE  callbacks = callbacks \o <<>> /\ <<>> \in Seq(EventsOfBus) /\ Events(<<>>) = {}
  BY EventsOfEmpty DEF Types

LEMMA WritesEffect ==
  ASSUME Types, NEW x \in Rows \cup Runs, NEW stage, NEW e \in EventsOfBus, WritesAndPublishes(x, stage, e), e.id = x,
         UNCHANGED <<live, panel>>, astray \subseteq astray'
  PROVE  /\ Effect(x, <<e>>, {}) /\ db'[x] = stage /\ Commits(e) /\ <<e>> \in Seq(EventsOfBus)
         /\ Events(<<e>>) = {e}
  <1>1. /\ db' = [db EXCEPT ![x] = stage] /\ callbacks' = callbacks \o <<e>> /\ Commits(e)
        /\ UNCHANGED <<latest, late, up, gateway, last, bounds>>
    BY DEF WritesAndPublishes, Publish
  <1>2. db'[x] = stage /\ \A y \in Rows \cup Runs : y # x => db'[y] = db[y]
    BY <1>1 DEF Types, DbTypes
  <1>3. <<e>> \in Seq(EventsOfBus) /\ Events(<<e>>) = {e}
    BY EventsOfOne
  <1> QED  BY <1>1, <1>2, <1>3 DEF Effect

LEMMA ThreadEffect ==
  ASSUME Types, NEW y, NEW e \in EventsOfBus, ThreadCommits(e), e.id \in {y, NoId},
         \A x \in Rows \cup Runs : x # y => db'[x] = db[x]
  PROVE  Effect(y, <<>>, {e}) /\ Commits(e) /\ <<>> \in Seq(EventsOfBus)
  <1>1. /\ late' = late \cup {e} /\ Commits(e) /\ UNCHANGED <<latest, up, callbacks, gateway, stores, last>>
    BY DEF ThreadCommits
  <1> QED  BY <1>1, NothingScheduled DEF Effect, stores

LEMMA EndingTypes ==
  /\ \A x, e : EndsOf(x, e) => ~Busies(e)
  /\ \A e : e.type \in RunEnds \cup {"generation.completed"} => EndsOf(e.id, e)
  /\ \A e : e.type \in OfRows \cup OfRuns /\ e.type \notin RunEnds \cup {"generation.completed"} => ~Corrects(e)
  BY DEF EndsOf, Busies, Corrects, RunEnds, OfRows, OfRuns

LEMMA RowEffects ==
  ASSUME Types, NEW r \in Rows, OfRow(r)
  PROVE  \E es \in Seq(EventsOfBus), ls \in SUBSET EventsOfBus :
           /\ Effect(r, es, ls)
           /\ \E e \in Events(es) \cup ls : Commits(e)
           /\ db'[r] \in RowEnds => r \in astray' \/ EndsLast(r, es, ls)
           /\ \A e \in ls : Busies(e) => e.type = "generation.queued"
  <1>1. CASE CreatesRow(r)
    <2> PICK e \in EventsOfBus : e = Event("generation.queued", r) /\ e.type = "generation.queued" /\ e.id = r
      BY NewEvents DEF OfRows
    <2>1. ThreadCommits(e) /\ db' = [db EXCEPT ![r] = "queued"]
      BY <1>1 DEF CreatesRow
    <2>2. db'[r] = "queued" /\ \A x \in Rows \cup Runs : x # r => db'[x] = db[x]
      BY <2>1 DEF Types, DbTypes
    <2>3. Effect(r, <<>>, {e}) /\ Commits(e) /\ <<>> \in Seq(EventsOfBus)
      BY <2>1, <2>2, ThreadEffect
    <2>4. db'[r] \notin RowEnds
      BY <2>2 DEF RowEnds
    <2>5. {e} \in SUBSET EventsOfBus /\ e \in Events(<<>>) \cup {e} /\ \A f \in {e} : f.type = "generation.queued"
      OBVIOUS
    <2> QED  BY ONLY <2>3, <2>4, <2>5
  <1>2. CASE Starts(r)
    <2> PICK e \in EventsOfBus : e = Event("generation.started", r) /\ e.id = r
      BY NewEvents DEF OfRows
    <2>1. Effect(r, <<e>>, {}) /\ db'[r] = "running" /\ Commits(e) /\ <<e>> \in Seq(EventsOfBus) /\ Events(<<e>>) = {e}
      BY <1>2, WritesEffect DEF Starts, stores
    <2> QED  BY <2>1 DEF RowEnds
  <1>3. CASE Completes(r)
    <2> PICK e \in EventsOfBus : e = Event("generation.completed", r) /\ e.id = r /\ e.type = "generation.completed"
      BY NewEvents DEF OfRows
    <2>1. Effect(r, <<e>>, {}) /\ Commits(e) /\ <<e>> \in Seq(EventsOfBus) /\ Events(<<e>>) = {e}
      BY <1>3, WritesEffect DEF Completes, stores
    <2>2. EndsLast(r, <<e>>, {})
      BY EndingTypes DEF EndsLast
    <2> QED  BY <2>1, <2>2
  <1>4. CASE Interrupts(r)
    <2> PICK e \in EventsOfBus : e = Event("generation.interrupted", r) /\ e.id = r
      BY NewEvents DEF OfRows
    <2>1. r \in astray' /\ astray \subseteq astray' /\ UNCHANGED <<live, panel>> /\ WritesAndPublishes(r, "interrupted", e)
      BY <1>4 DEF Interrupts
    <2>2. Effect(r, <<e>>, {}) /\ Commits(e) /\ <<e>> \in Seq(EventsOfBus) /\ Events(<<e>>) = {e}
      BY <2>1, WritesEffect
    <2> QED  BY <2>1, <2>2
  <1> QED  BY <1>1, <1>2, <1>3, <1>4 DEF OfRow

LEMMA ChangesEffect ==
  ASSUME Types, NEW kind \in Kinds, Changes(kind)
  PROVE  \E e \in EventsOfBus :
           /\ Effect(NoId, <<>>, {e}) /\ Commits(e) /\ <<>> \in Seq(EventsOfBus)
           /\ e.id = NoId /\ db' = db
  <1> PICK e \in EventsOfBus : e = Event(kind, NoId) /\ e.id = NoId
    BY NewEvents
  <1>1. ThreadCommits(e) /\ db' = db
    BY DEF Changes
  <1> QED  BY <1>1, ThreadEffect

LEMMA RunEffects ==
  ASSUME Types, NEW d \in Runs, OfRun(d)
  PROVE  \E es \in Seq(EventsOfBus), ls \in SUBSET EventsOfBus :
           /\ Effect(d, es, ls)
           /\ query' = query \/ \E e : Commits(e) /\ (Invalidates(e) => e \in Events(es) \cup ls)
           /\ db[d] \notin Over /\ \A e \in ls : ~Busies(e)
           /\ \/ db'[d] \in RunStages \ Over /\ \A e \in Events(es) \cup ls : ~EndsOf(d, e)
              \/ db'[d] \in Over /\ EndsLast(d, es, ls)
  <1> DEFINE Effects(es, ls) ==
           /\ Effect(d, es, ls)
           /\ query' = query \/ \E e : Commits(e) /\ (Invalidates(e) => e \in Events(es) \cup ls)
           /\ db[d] \notin Over /\ \A e \in ls : ~Busies(e)
           /\ \/ db'[d] \in RunStages \ Over /\ \A e \in Events(es) \cup ls : ~EndsOf(d, e)
              \/ db'[d] \in Over /\ EndsLast(d, es, ls)
  <1> d # NoId /\ d \in Rows \cup Runs /\ d \notin Rows
    OBVIOUS
  <1>0. /\ \A s : [db EXCEPT ![d] = s][d] = s
        /\ \A s : \A x \in Rows \cup Runs : x # d => [db EXCEPT ![d] = s][x] = db[x]
    BY DEF Types, DbTypes
  <1> SUFFICES \E es \in Seq(EventsOfBus), ls \in SUBSET EventsOfBus : Effects(es, ls)
    OBVIOUS
  <1>1. CASE Submits(d) \/ OthersSubmit(d)
    <2>1. /\ db[d] = "absent" /\ db' = [db EXCEPT ![d] = "running"]
          /\ UNCHANGED <<late, callbacks, gateway, query, live, panel, astray, last>>
      BY <1>1 DEF Submits, OthersSubmit, window, stores
    <2>2. Effect(d, <<>>, {}) /\ <<>> \in Seq(EventsOfBus) /\ Events(<<>>) = {}
      BY <2>1, <1>0, NothingScheduled DEF Effect
    <2>3. db'[d] \in RunStages \ Over /\ db[d] \notin Over
      BY <2>1, <1>0 DEF RunStages, Working, Over
    <2>4. Effects(<<>>, {})
      BY <2>1, <2>2, <2>3
    <2> QED  BY <2>2, <2>4
  <1>2. ASSUME NEW e \in EventsOfBus, NEW stage \in RunStages \ Over, e.id = d, ~Corrects(e), db[d] \notin Over,
               WritesAndPublishes(d, stage, e), UNCHANGED stores
        PROVE  \E es \in Seq(EventsOfBus), ls \in SUBSET EventsOfBus : Effects(es, ls)
    <2>1. Effect(d, <<e>>, {}) /\ db'[d] = stage /\ Commits(e) /\ <<e>> \in Seq(EventsOfBus) /\ Events(<<e>>) = {e}
      BY <1>2, WritesEffect DEF stores
    <2>2. Effects(<<e>>, {})
      BY <1>2, <2>1 DEF EndsOf
    <2> QED  BY <2>1, <2>2
  <1>3. CASE Plans(d)
    <2> PICK e \in EventsOfBus : e = Event("agent.plan.created", d) /\ e.id = d /\ e.type = "agent.plan.created"
      BY RunEventTypes, NewEvents
    <2>1. ~Corrects(e) /\ db[d] \notin Over /\ "planned" \in RunStages \ Over
      BY <1>3 DEF Plans, Corrects, RunEnds, Over, RunStages, Working
    <2> QED  BY <1>2, <1>3, <2>1 DEF Plans
  <1>4. CASE ActsInRun(d)
    <2> PICK e \in EventsOfBus : e = Event("agent.tool.started", d) /\ e.id = d /\ e.type = "agent.tool.started"
      BY RunEventTypes, NewEvents
    <2>1. ~Corrects(e) /\ db[d] \notin Over /\ "executing" \in RunStages \ Over
      BY <1>4 DEF ActsInRun, Corrects, RunEnds, Over, RunStages, Working
    <2> QED  BY <1>2, <1>4, <2>1 DEF ActsInRun
  <1>5. CASE Parks(d)
    <2> PICK e, f \in EventsOfBus : /\ e = Event("agent.proposal.created", d) /\ f = Event("agent.approval.required", NoId)
                                    /\ e.id = d /\ e.type = "agent.proposal.created"
                                    /\ f.id = NoId /\ f.type = "agent.approval.required"
      BY RunEventTypes, NewEvents
    <2>1. /\ db[d] = "executing" /\ db' = [db EXCEPT ![d] = "waiting"] /\ callbacks' = callbacks \o <<e, f>>
          /\ Commits(e) /\ UNCHANGED <<late, gateway, live, panel, astray, last>>
      BY <1>5 DEF Parks, Publish, stores
    <2>2. <<e, f>> \in Seq(EventsOfBus) /\ Events(<<e, f>>) = {e, f}
      BY EventsOfTwo
    <2>3. Effect(d, <<e, f>>, {})
      BY <2>1, <2>2, <1>0 DEF Effect
    <2>4. db'[d] \in RunStages \ Over /\ db[d] \notin Over
      BY <2>1, <1>0 DEF RunStages, Over
    <2>5. ~EndsOf(d, e) /\ ~EndsOf(d, f)
      BY DEF EndsOf, Corrects, RunEnds
    <2>6. Effects(<<e, f>>, {})
      BY <2>1, <2>2, <2>3, <2>4, <2>5
    <2> QED  BY <2>2, <2>6
  <1>6. ASSUME NEW end \in Over, EndsRun(d, end)
        PROVE  \E es \in Seq(EventsOfBus), ls \in SUBSET EventsOfBus : Effects(es, ls)
    <2> PICK e \in EventsOfBus : e = Event(EndEvent(end), d) /\ e.id = d /\ e.type \in RunEnds
      BY RunEventTypes, NewEvents
    <2>1. WritesAndPublishes(d, end, e) /\ UNCHANGED stores /\ db[d] \notin Over
      BY <1>6 DEF EndsRun, Working, Over
    <2>2. Effect(d, <<e>>, {}) /\ db'[d] = end /\ Commits(e) /\ <<e>> \in Seq(EventsOfBus) /\ Events(<<e>>) = {e}
      BY <2>1, WritesEffect DEF stores
    <2>3. EndsLast(d, <<e>>, {})
      BY EndingTypes DEF EndsLast
    <2>4. Effects(<<e>>, {})
      BY <2>1, <2>2, <2>3
    <2> QED  BY <2>2, <2>4
  <1>7. CASE Expires(d)
    <2> PICK e \in EventsOfBus : e = Event("agent.run.failed", d) /\ e.id = d /\ e.type = "agent.run.failed"
      BY RunEventTypes, NewEvents
    <2>1. ThreadCommits(e) /\ db[d] = "waiting" /\ db' = [db EXCEPT ![d] = "failed"]
      BY <1>7 DEF Expires
    <2>2. Effect(d, <<>>, {e}) /\ Commits(e) /\ <<>> \in Seq(EventsOfBus)
      BY <2>1, <1>0, ThreadEffect
    <2>3. EndsLast(d, <<>>, {e}) /\ ~Busies(e)
      BY EndingTypes DEF EndsLast, RunEnds
    <2>4. db'[d] \in Over /\ db[d] \notin Over
      BY <2>1, <1>0 DEF Over
    <2>5. Effects(<<>>, {e})
      BY <2>2, <2>3, <2>4
    <2> QED  BY <2>2, <2>5
  <1>8. CASE Cancels(d) \/ Resumes(d)
    <2> PICK e : e = Event("agent.run.updated", d)
      OBVIOUS
    <2>1. PICK stage \in {"cancelling", "stranded", "resumed"} :
               /\ db[d] \in Working \cup {"waiting", "dead"} /\ db' = [db EXCEPT ![d] = stage] /\ Commits(e)
               /\ UNCHANGED <<late, callbacks, gateway, live, panel, astray, last>>
      BY <1>8 DEF Cancels, Resumes, Serves
    <2>2. Effect(d, <<>>, {}) /\ <<>> \in Seq(EventsOfBus) /\ Events(<<>>) = {}
      BY <2>1, <1>0, NothingScheduled DEF Effect
    <2>3. db'[d] \in RunStages \ Over /\ db[d] \notin Over
      BY <2>1, <1>0 DEF RunStages, Working, Over
    <2>4. ~Invalidates(e)
      <3>1. e.type = "agent.run.updated"
        BY NewEvents
      <3>2. InvalidatesOfAgent(e) = {} /\ InvalidatesOfGeneration(e) = {} /\ InvalidatesOfResource(e) = {}
        BY <3>1 DEF InvalidatesOfAgent, InvalidatesOfGeneration, InvalidatesOfResource
      <3> QED  BY <3>2 DEF Invalidates
    <2>5. Effects(<<>>, {})
      BY <2>1, <2>2, <2>3, <2>4
    <2> QED  BY <2>2, <2>5
  <1> HIDE DEF Effects
  <1> QED  BY <1>1, <1>3, <1>4, <1>5, <1>6, <1>7, <1>8 DEF OfRun

-----------------------------------------------------------------------------
(* The query follows.                                                      *)

LEMMA EffectKeepsQuery ==
  ASSUME Types, MountOK, QueryOK, NEW y, NEW es \in Seq(EventsOfBus), NEW ls \in SUBSET EventsOfBus, Effect(y, es, ls),
         query' = query \/ \E e : Commits(e) /\ (Invalidates(e) => e \in Events(es) \cup ls)
  PROVE  MountOK' /\ QueryOK'
  <1>1. Missing' = Missing /\ WillCome' = WillCome \cup Events(es) \cup ls
    BY EffectFacts
  <1>2. panel' = panel /\ UNCHANGED <<gateway, last>> /\ open' = open
    BY DEF Effect, gateway
  <1>3. query \in Queries
    BY DEF Types
  <1>4. CASE query' = query
    BY <1>1, <1>2, <1>4, QueryKept
  <1>5. ASSUME NEW e, Commits(e), Invalidates(e) => e \in Events(es) \cup ls  PROVE MountOK' /\ QueryOK'
    BY <1>1, <1>2, <1>3, <1>5, CommitsKeeps
  <1> QED  BY <1>4, <1>5

LEMMA PublishFacts ==
  ASSUME Types, NEW e, ThreadPublishes(e)
  PROVE  /\ e \in late /\ e \in EventsOfBus /\ late' = late \ {e}
         /\ DOMAIN callbacks = 1 .. Len(callbacks) /\ Len(callbacks) \in Nat
         /\ DOMAIN callbacks' = 1 .. Len(callbacks) + 1
         /\ \A i \in DOMAIN callbacks : callbacks'[i] = callbacks[i]
         /\ callbacks'[Len(callbacks) + 1] = e
         /\ WillCome' = WillCome /\ Taken' = Taken /\ OnItsWay' = OnItsWay
         /\ astray' = IF e.type = "generation.queued" /\ db[e.id] \in RowEnds THEN astray \cup {e.id} ELSE astray
         /\ UNCHANGED <<db, latest, up, gateway, query, live, panel, request, last, bounds>>
  <1>1. /\ e \in late /\ e \in EventsOfBus /\ late' = late \ {e} /\ Publish(<<e>>)
        /\ astray' = IF e.type = "generation.queued" /\ db[e.id] \in RowEnds THEN astray \cup {e.id} ELSE astray
        /\ UNCHANGED <<db, latest, up, gateway, query, live, panel, request, last, bounds>>
    BY DEF ThreadPublishes, Types
  <1> PICK t : t = callbacks \o <<e>>
    OBVIOUS
  <1>2. /\ t \in Seq(EventsOfBus) /\ Len(t) = Len(callbacks) + 1 /\ Events(t) = Events(callbacks) \cup {e}
        /\ (\A i \in 1 .. Len(callbacks) : t[i] = callbacks[i]) /\ t[Len(callbacks) + 1] = e
        /\ callbacks \in Seq(EventsOfBus) /\ Len(callbacks) \in Nat
    <2>1. <<e>> \in Seq(EventsOfBus) /\ Len(<<e>>) = 1 /\ <<e>>[1] = e /\ Events(<<e>>) = {e}
      BY <1>1, EventsOfOne
    <2>2. callbacks \in Seq(EventsOfBus) /\ 1 \in 1 .. 1
      BY DEF Types
    <2> PICK o : o = <<e>>
      OBVIOUS
    <2>3. /\ callbacks \o o \in Seq(EventsOfBus) /\ Len(callbacks \o o) = Len(callbacks) + Len(o)
          /\ Events(callbacks \o o) = Events(callbacks) \cup Events(o)
          /\ \A i \in 1 .. Len(callbacks) : (callbacks \o o)[i] = callbacks[i]
          /\ \A i \in 1 .. Len(o) : (callbacks \o o)[Len(callbacks) + i] = o[i]
      <3>1. o \in Seq(EventsOfBus)
        BY <2>1
      <3> QED  BY ONLY <2>2, <3>1, EventsOfConcat
    <2> QED  BY <2>1, <2>2, <2>3
  <1>3. callbacks' = t
    BY <1>1 DEF Publish
  <1>4. Taken' = Taken /\ OnItsWay' = OnItsWay
    BY <1>1 DEF gateway, OnItsWay, Taken
  <1>5. WillCome' = WillCome
    <2>1. late' \cup Events(callbacks)' = late \cup Events(callbacks)
      BY <1>1, <1>2, <1>3
    <2>2. TakenEvents' = TakenEvents
      BY <1>4 DEF TakenEvents
    <2> QED  BY <2>1, <2>2 DEF WillCome
  <1> QED  BY <1>1, <1>2, <1>3, <1>4, <1>5

\* A fan-out, with or without a connection: what it moves to the taken messages, and
\* that what is lost is marked.
LEMMA FanOutMoves ==
  ASSUME Types, StreamOK, FanOut
  PROVE  \E m \in Messages :
           /\ m.event = Head(callbacks) /\ callbacks # <<>> /\ callbacks' = Tail(callbacks)
           /\ Taken' \subseteq Taken \cup {m} /\ \A n \in Taken : n.seq < m.seq
           /\ \A n \in Taken \ Taken' : Corrects(n.event) => n.event.id \in astray'
           /\ m \in Taken' \/ (Corrects(m.event) => m.event.id \in astray')
           /\ astray \subseteq astray'
           /\ UNCHANGED <<backend, open, live, panel, request, last, bounds>>
  <1> PICK m : m = Message(sequence + 1, Head(callbacks))
    OBVIOUS
  <1>1. callbacks # <<>> /\ callbacks' = Tail(callbacks) /\ UNCHANGED <<backend, open, wire, live, panel, request, last, bounds>>
    BY DEF FanOut
  <1>2. Head(callbacks) \in EventsOfBus
    BY <1>1, EventsOfTail DEF Types
  <1>3. m \in Messages /\ m.seq = sequence + 1 /\ m.event = Head(callbacks)
    BY <1>2, NewEvents DEF Types
  <1>4. \A n \in Taken : n.seq < m.seq
    BY <1>3, StreamFacts DEF Taken
  <1>5. CASE open
    <2>1. /\ m \in OnItsWay' /\ OnItsWay' \subseteq OnItsWay \cup {m} /\ astray \subseteq astray'
          /\ \A x \in OnItsWay \ OnItsWay' : Corrects(x.event) => x.event.id \in astray'
          /\ m.seq <= last /\ Corrects(m.event) => m.event.id \in astray'
      BY <1>5, FanOutFacts
    <2>2. m.seq \in Nat /\ last \in Nat /\ last' = last
      BY <1>1, <1>3 DEF Types
    <2>3. Taken' \subseteq Taken \cup {m} /\ \A n \in Taken \ Taken' : n \in OnItsWay \ OnItsWay'
      BY <2>1, <2>2 DEF Taken
    <2>4. m \in Taken' \/ m.seq <= last
      BY <2>1, <2>2 DEF Taken
    <2> QED  BY <1>1, <1>3, <1>4, <2>1, <2>3, <2>4
  <1>6. CASE ~open
    <2>1. UNCHANGED <<sequence, queue, query>> /\ Loses({Head(callbacks)})
      BY <1>6 DEF FanOut
    <2>2. astray' = astray \cup {f.id : f \in {g \in {Head(callbacks)} : Corrects(g)}}
      BY <2>1 DEF Loses
    <2>3. Taken' = Taken
      BY <1>1, <2>1 DEF Taken, OnItsWay
    <2>4. astray \subseteq astray' /\ (Corrects(m.event) => m.event.id \in astray')
      BY <1>3, <2>2
    <2> QED  BY <1>1, <1>3, <1>4, <2>3, <2>4
  <1> QED  BY <1>5, <1>6

LEMMA FanOutKeepsQuery ==
  ASSUME Types, StreamOK, MountOK, QueryOK, FanOut
  PROVE  MountOK' /\ QueryOK'
  <1>1. UNCHANGED <<late, open, panel, last>>
    BY DEF FanOut, backend
  <1>2. CASE ~open
    <2>1. query' = query /\ open' = FALSE
      BY <1>1, <1>2 DEF FanOut, Types
    <2> QED  BY <1>1, <2>1 DEF MountOK, QueryOK, IsMounted
  <1>3. CASE open
    <2> PICK m : m = Message(sequence + 1, Head(callbacks))
      OBVIOUS
    <2>1. /\ m \in Messages /\ m.seq = sequence + 1 /\ m.event = Head(callbacks) /\ callbacks # <<>>
          /\ callbacks' = Tail(callbacks)
          /\ m \in OnItsWay' /\ OnItsWay' \subseteq OnItsWay \cup {m}
          /\ \A x \in OnItsWay \ OnItsWay' : \E n \in OnItsWay' : n.seq = x.seq + 1
          /\ query' = [query EXCEPT !.unheard = query.unheard \/ (query.behind /\ m.seq <= last /\ Invalidates(m.event))]
      BY <1>3, FanOutFacts
    <2>2. /\ \A x \in OnItsWay : x.seq \in Nat /\ x.seq <= sequence
          /\ \A x, y \in OnItsWay : x.seq = y.seq => x = y
          /\ sequence \in Nat /\ last \in Nat /\ m.seq \in Nat
      BY <2>1, StreamFacts
    <2>3. /\ query'.view = query.view /\ query'.behind = query.behind /\ query'.due = query.due
          /\ query'.answer = query.answer /\ (query.unheard => query'.unheard)
          /\ query.behind /\ m.seq <= last /\ Invalidates(m.event) => query'.unheard
      <3> PICK u \in BOOLEAN : u = (query.unheard \/ (query.behind /\ m.seq <= last /\ Invalidates(m.event)))
        OBVIOUS
      <3>1. query' = [query EXCEPT !.unheard = u]
        BY <2>1
      <3> QED  BY <3>1 DEF Types, Queries
    <2>4. ASSUME NEW x \in OnItsWay \ OnItsWay', x.seq > last  PROVE Missing'
      <3>1. PICK n \in OnItsWay' : n.seq = x.seq + 1
        BY <2>1, <2>4
      <3>2. \A y \in OnItsWay' : y.seq # n.seq - 1
        BY <2>1, <2>2, <2>4, <3>1
      <3>3. n.seq > last' + 1
        BY <1>1, <2>2, <2>4, <3>1
      <3> QED  BY <3>1, <3>2, <3>3 DEF Missing
    <2>5. ASSUME Missing  PROVE Missing'
      <3>1. PICK w \in OnItsWay : w.seq > last + 1 /\ \A n \in OnItsWay : n.seq # w.seq - 1
        BY <2>5 DEF Missing
      <3>2. CASE w \in OnItsWay'
        <4>1. \A n \in OnItsWay' : n.seq # w.seq - 1
          BY <2>1, <2>2, <3>1
        <4> QED  BY <1>1, <3>1, <3>2, <4>1 DEF Missing
      <3>3. CASE w \notin OnItsWay'
        <4>1. w.seq > last
          BY <2>2, <3>1
        <4> QED  BY <2>4, <3>3, <4>1
      <3> QED  BY <3>2, <3>3
    <2>6. ASSUME NEW e \in WillCome, Invalidates(e), query.behind  PROVE e \in WillCome' \/ Missing' \/ query'.unheard
      <3>1. CASE e \in late
        BY <1>1, <3>1 DEF WillCome
      <3>2. CASE e \in Events(callbacks)
        <4>1. e = m.event \/ e \in Events(callbacks')
          BY <2>1, <3>2, EventsOfTail DEF Types
        <4>2. CASE e \in Events(callbacks')
          BY <4>2 DEF WillCome
        <4>3. CASE e = m.event /\ m.seq <= last
          BY <2>3, <2>6, <4>3
        <4>4. CASE e = m.event /\ ~(m.seq <= last)
          <5>1. m \in Taken'
            BY <1>1, <2>1, <2>2, <4>4 DEF Taken
          <5> QED  BY <4>4, <5>1 DEF WillCome, TakenEvents
        <4> QED  BY <4>1, <4>2, <4>3, <4>4
      <3>3. CASE e \in TakenEvents
        <4>1. PICK x \in Taken : e = x.event
          BY <3>3 DEF TakenEvents
        <4>2. x \in OnItsWay /\ x.seq > last
          BY <4>1 DEF Taken
        <4>3. CASE x \in OnItsWay'
          <5>1. x \in Taken'
            BY <1>1, <4>2, <4>3 DEF Taken
          <5> QED  BY <4>1, <5>1 DEF WillCome, TakenEvents
        <4> QED  BY <2>4, <4>2, <4>3
      <3> QED  BY <2>6, <3>1, <3>2, <3>3 DEF WillCome
    <2>7. CASE query.behind
      BY <1>1, <2>3, <2>5, <2>6, <2>7, QueryKept
    <2>8. CASE ~query.behind
      BY <2>3, <2>8 DEF MountOK, QueryOK
    <2> QED  BY <2>7, <2>8
  <1> QED  BY <1>2, <1>3

LEMMA ReceiveKeepsQuery ==
  ASSUME Types, StreamOK, MountOK, QueryOK, Receive
  PROVE  MountOK' /\ QueryOK'
  <1> PICK m : m = Head(wire)
    OBVIOUS
  <1>1. /\ m \in OnItsWay /\ m.seq \in Nat /\ m.event \in EventsOfBus
        /\ OnItsWay' = OnItsWay \ {m} /\ \A n \in OnItsWay \ {m} : n.seq > m.seq
        /\ UNCHANGED <<backend, callbacks, open>>
        /\ \/ m.seq > last /\ last' = m.seq /\ Route(m.event, m.seq > last + 1)
           \/ m.seq <= last /\ UNCHANGED <<last, window>>
    BY ReceiveFacts
  <1>2. (\A x \in OnItsWay : x.seq \in Nat) /\ last \in Nat
    BY StreamFacts
  <1>3. late' = late /\ callbacks' = callbacks
    BY <1>1 DEF backend
  <1>4. CASE m.seq <= last
    <2>1. last' = last /\ query' = query /\ panel' = panel
      BY <1>1, <1>2, <1>4 DEF window, stores
    <2>2. Taken' = Taken
      BY <1>1, <1>2, <1>4, <2>1 DEF Taken
    <2>3. WillCome' = WillCome
      BY <1>3, <2>2 DEF WillCome, TakenEvents
    <2>4. Missing => Missing'
      <3>1. ASSUME NEW w \in OnItsWay, w.seq > last + 1, \A n \in OnItsWay : n.seq # w.seq - 1  PROVE Missing'
        <4>1. w \in OnItsWay' /\ \A n \in OnItsWay' : n.seq # w.seq - 1
          BY <1>1, <1>2, <1>4, <3>1
        <4> QED  BY <2>1, <3>1, <4>1 DEF Missing
      <3> QED  BY <3>1 DEF Missing
    <2> QED  BY <1>1, <2>1, <2>3, <2>4, QueryKept
  <1>5. CASE m.seq > last
    <2>1. last' = m.seq /\ Route(m.event, m.seq > last + 1)
      BY <1>1, <1>2, <1>5
    <2>2. /\ Invalidated((m.seq > last + 1 /\ IsMounted) \/ Invalidates(m.event))
          /\ panel' = [panel EXCEPT !.status = StatusAfter(m.event)]
      BY <2>1 DEF Route
    <2>3. panel'.run = panel.run
      BY <2>2 DEF Types, Panels
    <2>4. /\ query'.view = query.view /\ query'.behind = query.behind /\ (query.due => query'.due)
          /\ query'.unheard = query.unheard /\ (query.answer = "current" => query'.answer = "current" \/ query'.due)
          /\ (m.seq > last + 1 /\ IsMounted) \/ Invalidates(m.event) => query'.due
      BY <2>2 DEF Invalidated, Types, Queries
    <2>5. CASE m.seq > last + 1 /\ IsMounted
      BY <2>3, <2>4, <2>5 DEF MountOK, QueryOK, IsMounted
    <2>6. CASE ~IsMounted
      BY <2>3, <2>4, <2>6 DEF MountOK, QueryOK
    <2>7. CASE IsMounted /\ ~(m.seq > last + 1)
      <3>1. m.seq = last + 1
        BY <1>1, <1>2, <1>5, <2>7
      <3>2. \A n \in Taken : n = m \/ n \in Taken'
        BY <1>1, <2>1 DEF Taken
      <3>3. \A e \in WillCome : Invalidates(e) => e \in WillCome' \/ query'.due
        BY <1>3, <2>4, <3>2 DEF WillCome, TakenEvents
      <3>4. Missing => Missing'
        <4>1. ASSUME NEW w \in OnItsWay, w.seq > last + 1, \A n \in OnItsWay : n.seq # w.seq - 1  PROVE Missing'
          <5>1. w # m /\ w.seq # m.seq + 1
            BY <1>1, <1>2, <3>1, <4>1
          <5>2. w \in OnItsWay' /\ w.seq > m.seq + 1 /\ \A n \in OnItsWay' : n.seq # w.seq - 1
            BY <1>1, <1>2, <4>1, <5>1
          <5> QED  BY <2>1, <5>2 DEF Missing
        <4> QED  BY <4>1 DEF Missing
      <3> QED  BY <1>1, <2>3, <2>4, <3>3, <3>4, QueryKept
    <2> QED  BY <2>5, <2>6, <2>7
  <1> QED  BY <1>2, <1>1, <1>4, <1>5

LEMMA WindowKeepsQuery ==
  ASSUME Types, MountOK, QueryOK, Fetches \/ Shows \/ PanelAnswered \/ PanelHydrates \/ PanelResets
  PROVE  MountOK' /\ QueryOK'
  <1>1. UNCHANGED <<gateway, last, late, callbacks>>
    BY DEF Fetches, Shows, PanelAnswered, PanelHydrates, PanelResets, backend
  <1>2. open' = open /\ WillCome' = WillCome /\ Missing' = Missing
    BY <1>1 DEF gateway, Missing, OnItsWay, WillCome, TakenEvents, Taken
  <1>3. query \in Queries
    BY DEF Types
  <1>4. CASE Fetches
    <2>1. query' = [query EXCEPT !.due = FALSE, !.answer = "current"] /\ panel' = panel
      BY <1>4 DEF Fetches, BackendAnswers, stores
    <2>2. query'.behind = query.behind /\ query'.view = query.view /\ query'.answer = "current"
      BY <1>3, <2>1 DEF Queries
    <2> QED  BY <2>1, <2>2 DEF MountOK, QueryOK, IsMounted
  <1>5. CASE Shows
    <2>1. /\ query' = IF query.answer = "current" THEN Fresh(query.view) ELSE [query EXCEPT !.answer = "none"]
          /\ panel' = panel
      BY <1>5 DEF Shows, ShowsAnswer, stores
    <2>2. CASE query.answer = "current"
      <3>1. query'.behind = FALSE
        BY <2>1, <2>2 DEF Fresh
      <3> QED  BY <3>1 DEF MountOK, QueryOK
    <2>3. CASE query.answer # "current"
      <3>1. /\ query'.view = query.view /\ query'.behind = query.behind /\ query'.due = query.due
            /\ query'.unheard = query.unheard
        BY <1>3, <2>1, <2>3 DEF Queries
      <3> QED  BY <1>2, <2>1, <2>3, <3>1, QueryKept
    <2> QED  BY <2>2, <2>3
  <1>6. CASE PanelAnswered
    <2> PICK gone : TakesRequest(gone)
      BY <1>6 DEF PanelAnswered
    <2>1. CASE request.ask = "start"
      <3>1. panel'.run = request.run /\ Mounts(request.run)
        BY <2>1 DEF TakesRequest
      <3> QED  BY <1>1, <1>3, <3>1, MountsKeeps
    <2>2. CASE request.ask = "cancel"
      <3>1. panel'.run = panel.run /\ query' = query
        BY <2>2 DEF TakesRequest, Types, Panels
      <3> QED  BY <1>2, <3>1, QueryKept
    <2>3. CASE request.ask = "resume"
      <3>1. panel'.run = panel.run /\ Invalidated(IsMounted /\ query.view \in RunViews)
        BY <2>3 DEF TakesRequest, Types, Panels
      <3>2. /\ query'.view = query.view /\ query'.behind = query.behind /\ (query.due => query'.due)
            /\ query'.unheard = query.unheard /\ (query.answer = "current" => query'.answer = "current" \/ query'.due)
        BY <1>3, <3>1 DEF Invalidated, Queries
      <3> QED  BY <1>2, <3>1, <3>2, QueryKept
    <2> QED  BY <2>1, <2>2, <2>3 DEF TakesRequest, Types, PanelRequests
  <1>7. CASE PanelHydrates
    <2>1. panel'.run = latest /\ Mounts(latest)
      BY <1>7 DEF PanelHydrates, Hydrates
    <2> QED  BY <1>1, <1>3, <2>1, MountsKeeps
  <1>8. CASE PanelResets
    <2>1. panel'.run = NoId /\ Mounts(NoId)
      BY <1>8 DEF PanelResets, Resets, EmptyPanel
    <2> QED  BY <1>1, <1>3, <2>1, MountsKeeps
  <1> QED  BY <1>4, <1>5, <1>6, <1>7, <1>8

LEMMA NextKeepsQuery ==
  ASSUME Types, StreamOK, MountOK, QueryOK, [Next]_vars
  PROVE  MountOK' /\ QueryOK'
  <1>1. CASE UNCHANGED vars
    <2>1. UNCHANGED <<query, panel, open>> /\ WillCome' = WillCome /\ Missing' = Missing
      BY <1>1 DEF vars, backend, gateway, window, stores, OnItsWay, Missing, WillCome, TakenEvents, Taken
    <2> QED  BY <2>1, QueryKept
  <1>2. ASSUME NEW r \in Rows, OfRow(r)  PROVE MountOK' /\ QueryOK'
    <2>1. PICK es \in Seq(EventsOfBus), ls \in SUBSET EventsOfBus :
               Effect(r, es, ls) /\ \E e \in Events(es) \cup ls : Commits(e)
      BY <1>2, RowEffects
    <2> QED  BY <2>1, EffectKeepsQuery
  <1>3. ASSUME NEW d \in Runs, OfRun(d)  PROVE MountOK' /\ QueryOK'
    <2>1. PICK es \in Seq(EventsOfBus), ls \in SUBSET EventsOfBus :
               /\ Effect(d, es, ls)
               /\ query' = query \/ \E e : Commits(e) /\ (Invalidates(e) => e \in Events(es) \cup ls)
      BY <1>3, RunEffects
    <2> QED  BY <2>1, EffectKeepsQuery
  <1>4. ASSUME NEW kind \in Kinds, Changes(kind)  PROVE MountOK' /\ QueryOK'
    <2>1. PICK e \in EventsOfBus : Effect(NoId, <<>>, {e}) /\ Commits(e) /\ <<>> \in Seq(EventsOfBus)
      BY <1>4, ChangesEffect
    <2>2. e \in Events(<<>>) \cup {e} /\ {e} \in SUBSET EventsOfBus
      OBVIOUS
    <2> QED  BY <2>1, <2>2, EffectKeepsQuery
  <1>5. ASSUME NEW e, ThreadPublishes(e)  PROVE MountOK' /\ QueryOK'
    <2>1. WillCome' = WillCome /\ OnItsWay' = OnItsWay /\ UNCHANGED <<gateway, query, panel, last>>
      BY <1>5, PublishFacts
    <2>2. Missing' = Missing /\ open' = open
      BY <2>1 DEF Missing, gateway
    <2> QED  BY <2>1, <2>2, QueryKept
  <1>6. CASE SenderSends
    <2>1. OnItsWay' = OnItsWay /\ UNCHANGED <<backend, callbacks, open, window, last>>
      BY <1>6, SenderFacts
    <2>2. Missing' = Missing /\ WillCome' = WillCome /\ open' = open /\ UNCHANGED <<query, panel>>
      BY <2>1 DEF Missing, WillCome, TakenEvents, Taken, backend, window, stores
    <2> QED  BY <2>2, QueryKept
  <1>7. CASE Connect
    <2>1. Invalidated(IsMounted) /\ UNCHANGED stores
      BY <1>7 DEF Connect, Reconcile
    <2>2. /\ query'.view = query.view /\ query'.behind = query.behind /\ (IsMounted => query'.due)
          /\ panel' = panel
      BY <2>1 DEF Invalidated, Types, Queries, stores
    <2> QED  BY <2>2 DEF MountOK, QueryOK, IsMounted
  <1>8. CASE ConnectionBreaks \/ ProcessDies
    <2>1. open' = FALSE /\ UNCHANGED <<query, panel>>
      BY <1>8 DEF ConnectionBreaks, ProcessDies, CloseConnection
    <2> QED  BY <2>1 DEF MountOK, QueryOK, IsMounted
  <1>9. CASE Restart
    <2>1. UNCHANGED <<query, panel, open>> /\ WillCome' = WillCome /\ Missing' = Missing
      BY <1>9 DEF Restart, gateway, window, stores, OnItsWay, Missing, WillCome, TakenEvents, Taken
    <2> QED  BY <2>1, QueryKept
  <1> QED
    BY <1>1, <1>2, <1>3, <1>4, <1>5, <1>6, <1>7, <1>8, <1>9, FanOutKeepsQuery, ReceiveKeepsQuery, WindowKeepsQuery
       DEF Next, Delivers

-----------------------------------------------------------------------------
(* The runs and the stores.                                                *)

LEMMA EffectKeepsOthers ==
  ASSUME Types, NEW y, NEW es \in Seq(EventsOfBus), NEW ls \in SUBSET EventsOfBus, Effect(y, es, ls),
         NEW x \in Rows \cup Runs, x # y
  PROVE  /\ RunOK(x) => RunOK(x)'
         /\ FollowOK(x) => FollowOK(x)'
  <1>1. /\ Taken' = Taken /\ WillCome' = WillCome \cup Events(es) \cup ls
        /\ DOMAIN callbacks = 1 .. Len(callbacks) /\ Len(callbacks) \in Nat /\ Len(es) \in Nat
        /\ DOMAIN callbacks' = 1 .. Len(callbacks) + Len(es)
        /\ \A i \in DOMAIN callbacks : callbacks'[i] = callbacks[i]
        /\ \A i \in DOMAIN callbacks' \ DOMAIN callbacks : callbacks'[i] \in Events(es)
    BY EffectFacts
  <1>2. \A e \in Events(es) \cup ls : ~EndsOf(x, e) /\ ~BusiesOf(x, e)
    <2>1. x # NoId
      OBVIOUS
    <2> QED  BY <2>1 DEF Effect, EndsOf, BusiesOf
  <1>3. \A i \in DOMAIN callbacks' : EndsOf(x, callbacks'[i]) \/ BusiesOf(x, callbacks'[i]) =>
          i \in DOMAIN callbacks /\ callbacks'[i] = callbacks[i]
    BY <1>1, <1>2
  <1>4. \A i \in DOMAIN callbacks : i \in DOMAIN callbacks' /\ callbacks'[i] = callbacks[i]
    BY <1>1
  <1>5. late \subseteq late' /\ db'[x] = db[x] /\ live' = live /\ panel' = panel
    BY DEF Effect
  <1>6. ASSUME RunOK(x)  PROVE RunOK(x)'
    <2>1. \A e \in WillCome' : EndsOf(x, e) => db'[x] \in Over
      BY <1>1, <1>2, <1>5, <1>6 DEF RunOK
    <2>2. \A i, j \in DOMAIN callbacks' : EndsOf(x, callbacks'[i]) /\ BusiesOf(x, callbacks'[j]) => j < i
      BY <1>3, <1>6 DEF RunOK
    <2>3. \A m \in Taken' : EndsOf(x, m.event) =>
            /\ \A i \in DOMAIN callbacks' : ~BusiesOf(x, callbacks'[i])
            /\ \A n \in Taken' : BusiesOf(x, n.event) => n.seq < m.seq
      BY <1>1, <1>3, <1>6 DEF RunOK
    <2> QED  BY <2>1, <2>2, <2>3 DEF RunOK, EndsOf, BusiesOf, Corrects, Busies
  <1>7. ASSUME FollowOK(x)  PROVE FollowOK(x)'
    <2>1. EndIsLate(x) => EndIsLate(x)'
      BY <1>5 DEF EndIsLate
    <2>2. EndIsScheduled(x) => EndIsScheduled(x)'
      BY <1>4, <2>1 DEF EndIsScheduled
    <2>3. ShownAsBusy(x)' => EndComes(x)'
      BY <1>1, <1>5, <1>7 DEF FollowOK, ShownAsBusy, EndComes
    <2>4. \A m \in Taken' : BusiesOf(x, m.event) => EndComesAfter(x, m.seq)'
      BY <1>1, <1>7, <2>2 DEF FollowOK, EndComesAfter
    <2>5. \A i \in DOMAIN callbacks' : BusiesOf(x, callbacks'[i]) =>
            EndIsLate(x)' \/ \E j \in DOMAIN callbacks' : j > i /\ EndsOf(x, callbacks'[j])
      BY <1>3, <1>4, <1>7, <2>1 DEF FollowOK
    <2> QED  BY <2>3, <2>4, <2>5 DEF FollowOK
  <1> QED  BY <1>6, <1>7

LEMMA EndsLastFacts ==
  ASSUME Types, NEW y, NEW es \in Seq(EventsOfBus), NEW ls \in SUBSET EventsOfBus, Effect(y, es, ls), EndsLast(y, es, ls)
  PROVE  /\ EndComes(y)' /\ EndIsScheduled(y)'
         /\ \A e \in Events(es) \cup ls : ~Busies(e)
         /\ \A i \in DOMAIN callbacks' : BusiesOf(y, callbacks'[i]) =>
              /\ i \in DOMAIN callbacks
              /\ EndIsLate(y)' \/ \E j \in DOMAIN callbacks' : j > i /\ EndsOf(y, callbacks'[j])
         /\ \A i \in DOMAIN callbacks', j \in DOMAIN callbacks :
              EndsOf(y, callbacks'[i]) => j < i \/ i \in DOMAIN callbacks
  <1>1. /\ WillCome' = WillCome \cup Events(es) \cup ls
        /\ DOMAIN callbacks = 1 .. Len(callbacks) /\ Len(callbacks) \in Nat /\ Len(es) \in Nat
        /\ DOMAIN callbacks' = 1 .. Len(callbacks) + Len(es)
        /\ \A i \in DOMAIN callbacks : callbacks'[i] = callbacks[i]
        /\ \A i \in 1 .. Len(es) : callbacks'[Len(callbacks) + i] = es[i]
        /\ \A i \in DOMAIN callbacks' \ DOMAIN callbacks : callbacks'[i] \in Events(es)
    BY EffectFacts
  <1>2. PICK e : EndsOf(y, e) /\ ~Busies(e) /\ ((es = <<e>> /\ ls = {}) \/ (es = <<>> /\ ls = {e}))
    BY DEF EndsLast
  <1>3. Events(es) \cup ls = {e}
    BY <1>2, EventsOfOne, EventsOfEmpty
  <1>4. EndComes(y)'
    BY <1>1, <1>2, <1>3 DEF EndComes
  <1>5. \A i \in DOMAIN callbacks' : Busies(callbacks'[i]) => i \in DOMAIN callbacks
    BY <1>1, <1>2, <1>3
  <1>6. EndIsLate(y)' \/ (Len(callbacks) + 1 \in DOMAIN callbacks' /\ EndsOf(y, callbacks'[Len(callbacks) + 1]))
    <2>1. CASE ls = {e}
      BY <1>2, <2>1 DEF EndIsLate, Effect
    <2>2. CASE es = <<e>>
      <3>1. Len(es) = 1 /\ es[1] = e
        BY <2>2
      <3>2. callbacks'[Len(callbacks) + 1] = e /\ Len(callbacks) + 1 \in DOMAIN callbacks'
        <4>1. 1 \in 1 .. Len(es)
          BY <3>1
        <4> QED  BY <1>1, <3>1, <4>1
      <3> QED  BY <1>2, <3>2
    <2> QED  BY <1>2, <2>1, <2>2
  <1>7. EndIsScheduled(y)'
    BY <1>6 DEF EndIsScheduled
  <1>8. \A i \in DOMAIN callbacks' : BusiesOf(y, callbacks'[i]) =>
          /\ i \in DOMAIN callbacks
          /\ EndIsLate(y)' \/ \E j \in DOMAIN callbacks' : j > i /\ EndsOf(y, callbacks'[j])
    <2> SUFFICES ASSUME NEW i \in DOMAIN callbacks', BusiesOf(y, callbacks'[i])
                 PROVE  /\ i \in DOMAIN callbacks
                        /\ EndIsLate(y)' \/ \E j \in DOMAIN callbacks' : j > i /\ EndsOf(y, callbacks'[j])
      OBVIOUS
    <2>1. i \in DOMAIN callbacks
      BY <1>5 DEF BusiesOf
    <2>2. Len(callbacks) + 1 > i
      BY <1>1, <2>1
    <2> QED  BY <1>6, <2>1, <2>2
  <1>9. \A i \in DOMAIN callbacks', j \in DOMAIN callbacks : j < i \/ i \in DOMAIN callbacks
    BY <1>1
  <1> QED  BY <1>2, <1>3, <1>4, <1>7, <1>8, <1>9

LEMMA EndsLastFollows ==
  ASSUME Types, NEW y, NEW es \in Seq(EventsOfBus), NEW ls \in SUBSET EventsOfBus, Effect(y, es, ls), EndsLast(y, es, ls)
  PROVE  FollowOK(y)'
  BY EndsLastFacts DEF FollowOK, EndComesAfter

\* Until its end a run has no event of its end.
LEMMA EffectKeepsRun ==
  ASSUME Types, NEW d \in Runs, NEW es \in Seq(EventsOfBus), NEW ls \in SUBSET EventsOfBus, Effect(d, es, ls),
         RunOK(d), db[d] \notin Over,
         (\A e \in Events(es) \cup ls : ~EndsOf(d, e)) \/ (db'[d] \in Over /\ EndsLast(d, es, ls))
  PROVE  RunOK(d)'
  <1>1. /\ Taken' = Taken /\ WillCome' = WillCome \cup Events(es) \cup ls
        /\ DOMAIN callbacks = 1 .. Len(callbacks) /\ Len(callbacks) \in Nat
        /\ DOMAIN callbacks' = 1 .. Len(callbacks) + Len(es) /\ Len(es) \in Nat
        /\ \A i \in DOMAIN callbacks : callbacks'[i] = callbacks[i]
        /\ \A i \in DOMAIN callbacks' \ DOMAIN callbacks : callbacks'[i] \in Events(es)
    BY EffectFacts
  <1>2. \A e \in WillCome : ~EndsOf(d, e)
    BY DEF RunOK
  <1>3. \A m \in Taken' : ~EndsOf(d, m.event)
    BY <1>1, <1>2 DEF WillCome, TakenEvents
  <1>4. \A i \in DOMAIN callbacks : ~EndsOf(d, callbacks'[i])
    <2>1. \A i \in DOMAIN callbacks : callbacks[i] \in WillCome
      BY DEF WillCome, Events
    <2> QED  BY <1>1, <1>2, <2>1
  <1>5. CASE \A e \in Events(es) \cup ls : ~EndsOf(d, e)
    <2>1. \A e \in WillCome' : ~EndsOf(d, e)
      BY <1>1, <1>2, <1>5
    <2>2. \A i \in DOMAIN callbacks' : ~EndsOf(d, callbacks'[i])
      BY <1>1, <1>4, <1>5
    <2> QED  BY <1>3, <2>1, <2>2 DEF RunOK, EndsOf, Corrects
  <1>6. CASE db'[d] \in Over /\ EndsLast(d, es, ls)
    <2>1. \A i, j \in DOMAIN callbacks' : EndsOf(d, callbacks'[i]) /\ BusiesOf(d, callbacks'[j]) => j < i
      BY <1>4, <1>6, EndsLastFacts
    <2> QED  BY <1>3, <1>6, <2>1 DEF RunOK, EndsOf, Corrects, BusiesOf, Busies
  <1> QED  BY <1>5, <1>6

LEMMA EffectKeepsStores ==
  ASSUME Types, Types', LateOK, RunsOK, StoresOK,
         NEW y, NEW es \in Seq(EventsOfBus), NEW ls \in SUBSET EventsOfBus, Effect(y, es, ls),
         \A e \in ls : Busies(e) => e.type = "generation.queued" \/ e.id = NoId,
         y \in Runs => RunOK(y)',
         y \in Rows \cup Runs => y \in astray' \/ EndsLast(y, es, ls) \/ db'[y] \notin Over \cup RowEnds
  PROVE  LateOK' /\ RunsOK' /\ StoresOK'
  <1>1. late' = late \cup ls /\ astray \subseteq astray' /\ \A x \in Rows \cup Runs : x # y => db'[x] = db[x]
    BY DEF Effect
  <1>2. LateOK'
    BY <1>1 DEF LateOK, Busies
  <1>3. RunsOK'
    BY EffectKeepsOthers DEF RunsOK
  <1>4. StoresOK'
    <2> SUFFICES ASSUME NEW x \in Rows \cup Runs, x \notin astray', db'[x] \in Over \cup RowEnds  PROVE FollowOK(x)'
      BY DEF StoresOK
    <2>1. CASE x = y
      BY <2>1, EndsLastFollows
    <2>2. CASE x # y
      BY <1>1, <2>2, EffectKeepsOthers DEF StoresOK
    <2> QED  BY <2>1, <2>2
  <1> QED  BY <1>2, <1>3, <1>4

LEMMA PublishKeepsStores ==
  ASSUME Types, LateOK, RunsOK, StoresOK, NEW e, ThreadPublishes(e)
  PROVE  LateOK' /\ RunsOK' /\ StoresOK'
  <1>1. /\ e \in late /\ e \in EventsOfBus /\ late' = late \ {e}
        /\ DOMAIN callbacks = 1 .. Len(callbacks) /\ Len(callbacks) \in Nat
        /\ DOMAIN callbacks' = 1 .. Len(callbacks) + 1
        /\ \A i \in DOMAIN callbacks : callbacks'[i] = callbacks[i]
        /\ callbacks'[Len(callbacks) + 1] = e
        /\ WillCome' = WillCome /\ Taken' = Taken /\ UNCHANGED <<db, live, panel>>
        /\ astray' = IF e.type = "generation.queued" /\ db[e.id] \in RowEnds THEN astray \cup {e.id} ELSE astray
    BY PublishFacts
  <1> PICK k : k = Len(callbacks) + 1
    OBVIOUS
  <1>2. /\ k \in DOMAIN callbacks' /\ callbacks'[k] = e
        /\ \A i \in DOMAIN callbacks' : i = k \/ (i \in DOMAIN callbacks /\ callbacks'[i] = callbacks[i])
        /\ \A i \in DOMAIN callbacks : i \in DOMAIN callbacks' /\ callbacks'[i] = callbacks[i] /\ i < k
    BY <1>1
  <1>3. \A x : EndsOf(x, e) => ~BusiesOf(x, e)
    BY EndingTypes DEF BusiesOf
  <1>4. LateOK'
    BY <1>1 DEF LateOK, Busies
  <1>5. ASSUME NEW d \in Runs  PROVE RunOK(d)'
    <2>1. RunOK(d)
      BY DEF RunsOK
    <2>2. ~BusiesOf(d, e)
      BY <1>1, EventFacts DEF LateOK, BusiesOf, OfRows
    <2>3. \A w \in WillCome' : EndsOf(d, w) => db'[d] \in Over
      BY <1>1, <2>1 DEF RunOK
    <2>4. \A i, j \in DOMAIN callbacks' : EndsOf(d, callbacks'[i]) /\ BusiesOf(d, callbacks'[j]) => j < i
      BY <1>2, <2>1, <2>2 DEF RunOK
    <2>5. \A m \in Taken' : EndsOf(d, m.event) =>
            /\ \A i \in DOMAIN callbacks' : ~BusiesOf(d, callbacks'[i])
            /\ \A n \in Taken' : BusiesOf(d, n.event) => n.seq < m.seq
      BY <1>1, <1>2, <2>1, <2>2 DEF RunOK
    <2> QED  BY <2>3, <2>4, <2>5 DEF RunOK, EndsOf, BusiesOf, Corrects, Busies
  <1>6. ASSUME NEW x \in Rows \cup Runs, x \notin astray', db'[x] \in Over \cup RowEnds  PROVE FollowOK(x)'
    <2>1. FollowOK(x) /\ db[x] \in Over \cup RowEnds
      BY <1>1, <1>6 DEF StoresOK
    <2>2. ~BusiesOf(x, e)
      <3>1. SUFFICES ASSUME e.id = x, Busies(e)  PROVE FALSE
        BY DEF BusiesOf
      <3>2. e.type = "generation.queued" /\ x \in Rows
        BY <1>1, <3>1, EventFacts DEF LateOK, OfRows
      <3>3. db[x] \in RowStages
        BY <3>2 DEF Types, DbTypes
      <3>4. db[x] \in RowEnds
        BY <3>3, <2>1 DEF RowStages, RowEnds, Over
      <3> QED  BY <1>1, <1>6, <3>1, <3>2, <3>4
    <2>3. EndIsLate(x) => EndIsLate(x)' \/ EndsOf(x, e)
      BY <1>1 DEF EndIsLate
    <2>4. EndIsScheduled(x) => EndIsScheduled(x)'
      BY <1>2, <2>3 DEF EndIsScheduled
    <2>5. ShownAsBusy(x)' => EndComes(x)'
      BY <1>1, <2>1 DEF FollowOK, ShownAsBusy, EndComes
    <2>6. \A m \in Taken' : BusiesOf(x, m.event) => EndComesAfter(x, m.seq)'
      BY <1>1, <2>1, <2>4 DEF FollowOK, EndComesAfter
    <2>7. \A i \in DOMAIN callbacks' : BusiesOf(x, callbacks'[i]) =>
            EndIsLate(x)' \/ \E j \in DOMAIN callbacks' : j > i /\ EndsOf(x, callbacks'[j])
      <3> SUFFICES ASSUME NEW i \in DOMAIN callbacks', BusiesOf(x, callbacks'[i])
                   PROVE  EndIsLate(x)' \/ \E j \in DOMAIN callbacks' : j > i /\ EndsOf(x, callbacks'[j])
        OBVIOUS
      <3>1. i \in DOMAIN callbacks /\ callbacks'[i] = callbacks[i] /\ k > i
        BY <1>2, <2>2, <1>1
      <3>2. EndIsLate(x) \/ \E j \in DOMAIN callbacks : j > i /\ EndsOf(x, callbacks[j])
        BY <2>1, <3>1 DEF FollowOK
      <3> QED  BY <1>2, <2>3, <3>1, <3>2
    <2> QED  BY <2>5, <2>6, <2>7 DEF FollowOK
  <1> QED  BY <1>4, <1>5, <1>6 DEF RunsOK, StoresOK

LEMMA FanOutKeepsStores ==
  ASSUME Types, StreamOK, LateOK, RunsOK, StoresOK, FanOut
  PROVE  LateOK' /\ RunsOK' /\ StoresOK'
  <1>1. PICK m \in Messages :
          /\ m.event = Head(callbacks) /\ callbacks # <<>> /\ callbacks' = Tail(callbacks)
          /\ Taken' \subseteq Taken \cup {m} /\ \A n \in Taken : n.seq < m.seq
          /\ \A n \in Taken \ Taken' : Corrects(n.event) => n.event.id \in astray'
          /\ m \in Taken' \/ (Corrects(m.event) => m.event.id \in astray')
          /\ astray \subseteq astray'
          /\ UNCHANGED <<backend, open, live, panel, request, last, bounds>>
    BY FanOutMoves
  <1>2. UNCHANGED <<db, late, live, panel>>
    BY <1>1 DEF backend
  <1>3. /\ DOMAIN callbacks = 1 .. Len(callbacks) /\ DOMAIN callbacks' = 1 .. Len(callbacks) - 1 /\ Len(callbacks) \in Nat
        /\ Len(callbacks) >= 1 /\ callbacks[1] = m.event
        /\ \A i \in DOMAIN callbacks' : callbacks'[i] = callbacks[i + 1]
    <2> PICK t : t = Tail(callbacks)
      OBVIOUS
    <2>1. callbacks \in Seq(EventsOfBus) /\ callbacks # <<>> /\ m.event = Head(callbacks)
      BY <1>1 DEF Types
    <2>2. /\ t \in Seq(EventsOfBus) /\ Len(t) = Len(callbacks) - 1 /\ Len(callbacks) >= 1 /\ Head(callbacks) = callbacks[1]
          /\ \A i \in 1 .. Len(callbacks) - 1 : t[i] = callbacks[i + 1]
      BY <2>1, EventsOfTail
    <2>3. callbacks' = t
      BY <1>1
    <2> QED  BY <2>1, <2>2, <2>3
  <1>4. /\ 1 \in DOMAIN callbacks
        /\ \A i \in DOMAIN callbacks' : i + 1 \in DOMAIN callbacks /\ callbacks'[i] = callbacks[i + 1] /\ i \in Nat /\ i >= 1
        /\ \A i \in DOMAIN callbacks : i # 1 => i - 1 \in DOMAIN callbacks' /\ callbacks'[i - 1] = callbacks[i] /\ i \in Nat
    BY <1>3
  <1>5. LateOK'
    BY <1>2 DEF LateOK, Busies
  <1>6. \A w : w \in WillCome' => w \in WillCome
    <2>1. m.event \in Events(callbacks) /\ \A i \in DOMAIN callbacks' : callbacks'[i] \in Events(callbacks)
      BY <1>3, <1>4 DEF Events
    <2>2. \A w \in Events(callbacks') : w \in Events(callbacks)
      BY <2>1 DEF Events
    <2>3. \A w \in TakenEvents' : w \in TakenEvents \/ w = m.event
      BY <1>1 DEF TakenEvents
    <2> QED  BY <1>2, <2>1, <2>2, <2>3 DEF WillCome
  <1>7. ASSUME NEW d \in Runs  PROVE RunOK(d)'
    <2>1. RunOK(d)
      BY DEF RunsOK
    <2>2. \A w \in WillCome' : EndsOf(d, w) => db'[d] \in Over
      BY <1>2, <1>6, <2>1 DEF RunOK
    <2>3. \A i, j \in DOMAIN callbacks' : EndsOf(d, callbacks'[i]) /\ BusiesOf(d, callbacks'[j]) => j < i
      <3> SUFFICES ASSUME NEW i \in DOMAIN callbacks', NEW j \in DOMAIN callbacks',
                          EndsOf(d, callbacks'[i]), BusiesOf(d, callbacks'[j])
                   PROVE  j < i
        OBVIOUS
      <3>1. j + 1 < i + 1
        BY <1>4, <2>1 DEF RunOK
      <3> QED  BY <3>1, <1>4
    <2>4. ASSUME NEW n \in Taken', EndsOf(d, n.event)
          PROVE  /\ \A i \in DOMAIN callbacks' : ~BusiesOf(d, callbacks'[i])
                 /\ \A p \in Taken' : BusiesOf(d, p.event) => p.seq < n.seq
      <3>1. CASE n = m
        <4>1. \A j \in DOMAIN callbacks : BusiesOf(d, callbacks[j]) => j < 1
          BY <1>3, <1>4, <2>1, <2>4, <3>1 DEF RunOK
        <4>2. \A i \in DOMAIN callbacks' : ~BusiesOf(d, callbacks'[i])
          BY <1>4, <4>1
        <4>3. ~BusiesOf(d, m.event)
          BY <2>4, <3>1, EndingTypes DEF BusiesOf
        <4> QED  BY <1>1, <3>1, <4>2, <4>3
      <3>2. CASE n \in Taken
        <4>1. /\ \A i \in DOMAIN callbacks : ~BusiesOf(d, callbacks[i])
              /\ \A p \in Taken : BusiesOf(d, p.event) => p.seq < n.seq
          BY <2>1, <2>4, <3>2 DEF RunOK
        <4> QED  BY <1>1, <1>3, <1>4, <4>1
      <3> QED  BY <1>1, <2>4, <3>1, <3>2
    <2> QED  BY <2>2, <2>3, <2>4 DEF RunOK, EndsOf, BusiesOf, Corrects, Busies
  <1>8. ASSUME NEW x \in Rows \cup Runs, x \notin astray', db'[x] \in Over \cup RowEnds  PROVE FollowOK(x)'
    <2>1. FollowOK(x)
      BY <1>1, <1>2, <1>8 DEF StoresOK
    <2>2. EndIsLate(x) => EndIsLate(x)'
      BY <1>2 DEF EndIsLate
    <2>3. \A n \in Taken : EndsOf(x, n.event) => n \in Taken'
      BY <1>1, <1>8 DEF EndsOf
    <2>4. EndsOf(x, m.event) => m \in Taken'
      BY <1>1, <1>8 DEF EndsOf
    <2>5. EndIsScheduled(x) => EndIsScheduled(x)' \/ (EndsOf(x, m.event) /\ m \in Taken')
      <3>1. ASSUME NEW i \in DOMAIN callbacks, EndsOf(x, callbacks[i])
            PROVE  (\E j \in DOMAIN callbacks' : EndsOf(x, callbacks'[j])) \/ (EndsOf(x, m.event) /\ m \in Taken')
        BY <1>3, <1>4, <2>4, <3>1
      <3> QED  BY <2>2, <3>1 DEF EndIsScheduled
    <2>6. EndComes(x) => EndComes(x)'
      <3>1. ASSUME NEW w \in WillCome, EndsOf(x, w)  PROVE EndComes(x)'
        <4>1. CASE w \in late
          BY <1>2, <3>1, <4>1 DEF EndComes, WillCome
        <4>2. CASE w \in Events(callbacks)
          <5>1. PICK i \in DOMAIN callbacks : w = callbacks[i]
            BY <4>2 DEF Events
          <5>2. CASE i = 1
            BY <1>3, <2>4, <3>1, <5>1, <5>2 DEF EndComes, WillCome, TakenEvents
          <5>3. CASE i # 1
            <6>1. w \in Events(callbacks')
              BY <1>4, <5>1, <5>3 DEF Events
            <6> QED  BY <3>1, <6>1 DEF EndComes, WillCome
          <5> QED  BY <5>2, <5>3
        <4>3. CASE w \in TakenEvents
          BY <2>3, <3>1, <4>3 DEF EndComes, WillCome, TakenEvents
        <4> QED  BY <3>1, <4>1, <4>2, <4>3 DEF WillCome
      <3> QED  BY <3>1 DEF EndComes
    <2>7. ShownAsBusy(x)' => EndComes(x)'
      BY <1>2, <2>1, <2>6 DEF FollowOK, ShownAsBusy
    <2>8. \A n \in Taken' : BusiesOf(x, n.event) => EndComesAfter(x, n.seq)'
      <3> SUFFICES ASSUME NEW n \in Taken', BusiesOf(x, n.event)  PROVE EndComesAfter(x, n.seq)'
        OBVIOUS
      <3>1. CASE n \in Taken
        <4>1. EndIsScheduled(x) \/ \E p \in Taken : p.seq > n.seq /\ EndsOf(x, p.event)
          BY <2>1, <3>1 DEF FollowOK, EndComesAfter
        <4>2. m.seq > n.seq
          <5>1. n.seq < m.seq /\ n.seq \in Nat /\ m.seq \in Nat
            BY <1>1, <3>1, StreamFacts DEF Taken, Messages
          <5> QED  BY <5>1
        <4> QED  BY <2>3, <2>5, <4>1, <4>2 DEF EndComesAfter
      <3>2. CASE n = m
        <4>1. EndIsLate(x) \/ \E j \in DOMAIN callbacks : j > 1 /\ EndsOf(x, callbacks[j])
          BY <1>3, <1>4, <2>1, <3>2 DEF FollowOK
        <4>2. EndIsScheduled(x)'
          BY <1>4, <2>2, <4>1 DEF EndIsScheduled
        <4> QED  BY <4>2 DEF EndComesAfter
      <3> QED  BY <1>1, <3>1, <3>2
    <2>9. \A i \in DOMAIN callbacks' : BusiesOf(x, callbacks'[i]) =>
            EndIsLate(x)' \/ \E j \in DOMAIN callbacks' : j > i /\ EndsOf(x, callbacks'[j])
      <3> SUFFICES ASSUME NEW i \in DOMAIN callbacks', BusiesOf(x, callbacks'[i])
                   PROVE  EndIsLate(x)' \/ \E j \in DOMAIN callbacks' : j > i /\ EndsOf(x, callbacks'[j])
        OBVIOUS
      <3>1. EndIsLate(x) \/ \E j \in DOMAIN callbacks : j > i + 1 /\ EndsOf(x, callbacks[j])
        BY <1>4, <2>1 DEF FollowOK
      <3>2. ASSUME NEW j \in DOMAIN callbacks, j > i + 1, EndsOf(x, callbacks[j])
            PROVE  \E p \in DOMAIN callbacks' : p > i /\ EndsOf(x, callbacks'[p])
        <4>1. j # 1 /\ j - 1 > i
          BY <1>4, <3>2
        <4> QED  BY <1>4, <3>2, <4>1
      <3> QED  BY <2>2, <3>1, <3>2
    <2> QED  BY <2>7, <2>8, <2>9 DEF FollowOK
  <1> QED  BY <1>5, <1>7, <1>8 DEF RunsOK, StoresOK

\* Fewer messages on their way, and nothing else of what the runs' invariant is about.
LEMMA RunsKept ==
  ASSUME LateOK, RunsOK, late' = late, callbacks' = callbacks, Taken' \subseteq Taken,
         \A d \in Runs : db[d] \in Over => db'[d] = db[d]
  PROVE  LateOK' /\ RunsOK'
  <1>1. LateOK'
    BY DEF LateOK, Busies
  <1>2. WillCome' \subseteq WillCome
    BY DEF WillCome, TakenEvents
  <1>3. ASSUME NEW d \in Runs  PROVE RunOK(d)'
    BY <1>2 DEF RunsOK, RunOK, EndsOf, BusiesOf, Corrects, Busies
  <1> QED  BY <1>1, <1>3 DEF RunsOK

\* What is shown as busy is no more, and no end is lost.
LEMMA FollowKept ==
  ASSUME NEW x, FollowOK(x), late' = late, callbacks' = callbacks, Taken' \subseteq Taken,
         ShownAsBusy(x)' => ShownAsBusy(x) \/ EndComes(x),
         \A n \in Taken \ Taken' : ~EndsOf(x, n.event) \/ \A p \in Taken' : ~(n.seq > p.seq),
         \A n \in Taken \ Taken' : EndsOf(x, n.event) => ~ShownAsBusy(x)'
  PROVE  FollowOK(x)'
  <1>1. EndIsLate(x)' = EndIsLate(x) /\ EndIsScheduled(x)' = EndIsScheduled(x)
    BY DEF EndIsLate, EndIsScheduled
  <1>2. ShownAsBusy(x)' => EndComes(x)'
    BY DEF FollowOK, EndComes, WillCome, TakenEvents
  <1>3. \A m \in Taken' : BusiesOf(x, m.event) => EndComesAfter(x, m.seq)'
    BY <1>1 DEF FollowOK, EndComesAfter
  <1>4. \A i \in DOMAIN callbacks' : BusiesOf(x, callbacks'[i]) =>
          EndIsLate(x)' \/ \E j \in DOMAIN callbacks' : j > i /\ EndsOf(x, callbacks'[j])
    BY <1>1 DEF FollowOK
  <1> QED  BY <1>2, <1>3, <1>4 DEF FollowOK

LEMMA ReceiveKeepsStores ==
  ASSUME Types, StreamOK, LateOK, RunsOK, StoresOK, Receive
  PROVE  LateOK' /\ RunsOK' /\ StoresOK'
  <1> PICK m : m = Head(wire)
    OBVIOUS
  <1>1. /\ m \in OnItsWay /\ m.seq \in Nat /\ m.event \in EventsOfBus
        /\ OnItsWay' = OnItsWay \ {m} /\ \A n \in OnItsWay \ {m} : n.seq > m.seq
        /\ UNCHANGED <<backend, callbacks, open>>
        /\ \/ m.seq > last /\ last' = m.seq /\ Route(m.event, m.seq > last + 1)
           \/ m.seq <= last /\ UNCHANGED <<last, window>>
    BY ReceiveFacts
  <1>2. (\A n \in OnItsWay : n.seq \in Nat) /\ last \in Nat
    BY StreamFacts
  <1>3. late' = late /\ callbacks' = callbacks /\ db' = db
    BY <1>1 DEF backend
  <1>4. CASE m.seq <= last
    <2>1. last' = last /\ UNCHANGED <<live, panel, astray>>
      BY <1>1, <1>2, <1>4 DEF window, stores
    <2>2. Taken' = Taken
      BY <1>1, <1>2, <1>4, <2>1 DEF Taken
    <2>3. LateOK' /\ RunsOK'
      BY <1>3, <2>2, RunsKept
    <2>4. \A x \in Rows \cup Runs : FollowOK(x) => FollowOK(x)'
      BY <1>3, <2>1, <2>2, FollowKept DEF ShownAsBusy
    <2>5. StoresOK'
      BY <1>3, <2>1, <2>4 DEF StoresOK
    <2> QED  BY <2>3, <2>5
  <1>5. CASE m.seq > last
    <2> PICK e \in EventsOfBus : e = m.event
      BY <1>1
    <2>1. last' = m.seq /\ Route(e, m.seq > last + 1)
      BY <1>1, <1>2, <1>5
    <2>2. /\ live' = LiveAfter(e) /\ panel' = [panel EXCEPT !.status = StatusAfter(e)]
          /\ astray' = IF e.type \in RunEnds
                       THEN astray \ {e.id}
                       ELSE IF e.id # panel.run /\ StatusAfter(e) # panel.status
                            THEN astray \cup {panel.run}
                            ELSE astray
      BY <2>1 DEF Route
    <2>3. m \in Taken /\ Taken' = Taken \ {m} /\ \A n \in Taken' : n.seq > m.seq /\ n.seq \in Nat
      BY <1>1, <1>2, <1>5, <2>1 DEF Taken
    <2>4. LateOK' /\ RunsOK'
      BY <1>3, <2>3, RunsKept
    <2>5. panel'.run = panel.run /\ panel'.status = StatusAfter(e)
      BY <2>2 DEF Types, Panels
    <2>6. ASSUME NEW x \in Rows \cup Runs, x \notin astray', db'[x] \in Over \cup RowEnds  PROVE FollowOK(x)'
      <3>1. CASE e.type \in RunEnds /\ x = e.id
        <4>1. x \in Runs /\ EndsOf(x, e)
          <5>1. e.type \notin OfRows
            BY <3>1 DEF RunEnds, OfRows
          <5> QED  BY <3>1, <5>1, EventFacts, EndingTypes
        <4>2. /\ \A i \in DOMAIN callbacks : ~BusiesOf(x, callbacks[i])
              /\ \A n \in Taken : BusiesOf(x, n.event) => n.seq < m.seq
          BY <2>3, <4>1 DEF RunsOK, RunOK
        <4>3. \A n \in Taken' : ~BusiesOf(x, n.event)
          BY <1>1, <2>3, <4>2
        <4>4. ~ShownAsBusy(x)'
          <5>1. live' \subseteq Rows
            BY <2>2, EventFacts DEF LiveAfter, Types, OfRows
          <5>2. StatusAfter(e) \notin BusyStatuses
            BY <3>1 DEF StatusAfter, RunEnds, BusyStatuses
          <5> QED  BY <2>5, <4>1, <5>1, <5>2 DEF ShownAsBusy
        <4> QED  BY <1>3, <4>2, <4>3, <4>4 DEF FollowOK, BusiesOf, Busies
      <3>2. CASE ~(e.type \in RunEnds /\ x = e.id)
        <4>1. x \notin astray /\ FollowOK(x)
          BY <1>3, <2>2, <2>6, <3>2 DEF StoresOK
        <4>2. EndsOf(x, e) => ~ShownAsBusy(x)'
          <5> SUFFICES ASSUME EndsOf(x, e)  PROVE ~ShownAsBusy(x)'
            OBVIOUS
          <5>1. e.type = "generation.completed" /\ e.id = x
            BY <3>2 DEF EndsOf, Corrects
          <5>2. x \in Rows /\ live' = live \ {x}
            BY <2>2, <5>1, EventFacts DEF LiveAfter, OfRows
          <5>3. panel'.run # x
            BY <2>5, <5>2 DEF Types, Panels
          <5> QED  BY <5>2, <5>3 DEF ShownAsBusy
        <4>3. ShownAsBusy(x)' => ShownAsBusy(x) \/ BusiesOf(x, e)
          <5> SUFFICES ASSUME ShownAsBusy(x)', ~ShownAsBusy(x)  PROVE BusiesOf(x, e)
            OBVIOUS
          <5>1. CASE x \in live'
            <6>1. x \notin live
              BY DEF ShownAsBusy
            <6>2. e.type \in {"generation.queued", "generation.started"} /\ e.id = x
              BY <2>2, <5>1, <6>1 DEF LiveAfter
            <6> QED  BY <6>2 DEF BusiesOf, Busies
          <5>2. CASE panel'.run = x /\ panel'.status \in BusyStatuses
            <6>1. panel.run = x /\ StatusAfter(e) \in BusyStatuses /\ panel.status \notin BusyStatuses
              BY <2>5, <5>2 DEF ShownAsBusy
            <6>2. e.type \in {"agent.plan.created", "agent.tool.started"}
              BY <6>1 DEF StatusAfter, BusyStatuses
            <6>3. e.type \notin RunEnds
              BY <6>2 DEF RunEnds
            <6>4. e.id = x
              BY <2>2, <2>6, <6>1, <6>3
            <6> QED  BY <6>2, <6>4 DEF BusiesOf, Busies
          <5> QED  BY <5>1, <5>2 DEF ShownAsBusy
        <4>4. BusiesOf(x, e) => EndComes(x)
          <5>1. BusiesOf(x, e) => EndComesAfter(x, m.seq)
            BY <2>3, <4>1 DEF FollowOK
          <5>2. EndComesAfter(x, m.seq) => EndComes(x)
            BY DEF EndComesAfter, EndIsScheduled, EndIsLate, EndComes, WillCome, Events, TakenEvents
          <5> QED  BY <5>1, <5>2
        <4>5. \A p \in Taken' : ~(m.seq > p.seq)
          BY <1>1, <2>3
        <4>6. \A n \in Taken \ Taken' : n = m
          BY <2>3
        <4> QED  BY <1>3, <2>3, <4>1, <4>2, <4>3, <4>4, <4>5, <4>6, FollowKept
      <3> QED  BY <3>1, <3>2
    <2>7. StoresOK'
      BY <2>6 DEF StoresOK
    <2> QED  BY <2>4, <2>7
  <1> QED  BY <1>1, <1>2, <1>4, <1>5

LEMMA WindowKeepsStores ==
  ASSUME Types, StreamOK, LateOK, RunsOK, StoresOK, Fetches \/ Shows \/ PanelAnswered \/ PanelHydrates \/ PanelResets
  PROVE  LateOK' /\ RunsOK' /\ StoresOK'
  <1>1. UNCHANGED <<db, late, callbacks, gateway, last>>
    BY DEF Fetches, Shows, PanelAnswered, PanelHydrates, PanelResets, backend
  <1>2. Taken' = Taken
    BY <1>1 DEF gateway, Taken, OnItsWay
  <1>3. LateOK' /\ RunsOK'
    BY <1>1, <1>2, RunsKept
  <1>4. astray \subseteq astray' /\ live' = live
    BY DEF Fetches, Shows, PanelAnswered, PanelHydrates, PanelResets, BackendAnswers, ShowsAnswer, TakesRequest,
           Hydrates, Resets, stores
  <1>5. \A x \in Rows \cup Runs : x \notin astray' /\ db[x] \in Over \cup RowEnds =>
          (ShownAsBusy(x)' => ShownAsBusy(x) \/ EndComes(x))
    <2> SUFFICES ASSUME NEW x \in Rows \cup Runs, x \notin astray', db[x] \in Over \cup RowEnds,
                        ShownAsBusy(x)', ~ShownAsBusy(x)
                 PROVE  EndComes(x)
      OBVIOUS
    <2>1. panel'.run = x /\ panel'.status \in BusyStatuses /\ panel' # panel
      BY <1>4 DEF ShownAsBusy
    <2>2. ASSUME x \in Runs  PROVE db[x] \in Over
      <3>1. db[x] \in RunStages
        BY <2>2 DEF Types, DbTypes
      <3> QED  BY <3>1 DEF RunStages, Working, Over, RowEnds
    <2>3. CASE Fetches \/ Shows
      BY <2>1, <2>3 DEF Fetches, Shows, BackendAnswers, ShowsAnswer, stores
    <2>4. CASE PanelAnswered
      <3> DEFINE gone == {d \in Runs : db[d] \in Over /\ \A e \in Coming : e.id = d => ~Corrects(e)}
      <3>1. TakesRequest(gone)
        BY <2>4 DEF PanelAnswered
      <3>2. astray' = astray \cup ({panel'.run} \cap gone)
        BY <3>1 DEF TakesRequest
      <3>3. x \in Runs
        <4>1. panel' \in Panels
          BY <2>4, WindowTypes DEF Types
        <4>2. x \in Runs \cup {NoId}
          BY <2>1, <4>1 DEF Panels
        <4> QED  BY <4>2
      <3>4. x \notin gone
        BY <2>1, <3>2
      <3>5. \E e \in Coming : EndsOf(x, e)
        BY <2>2, <3>3, <3>4 DEF EndsOf
      <3> QED  BY <3>5, TakenFacts DEF EndComes
    <2>5. CASE PanelHydrates
      <3>1. panel' = [run |-> latest, status |-> Normalized(db[latest])] /\ latest \in Runs
        BY <2>5 DEF PanelHydrates, Hydrates, Types
      <3>2. x \in Runs /\ Normalized(db[x]) \in BusyStatuses
        BY <2>1, <3>1
      <3>3. db[x] \notin Over
        BY <3>2 DEF Normalized, BusyStatuses, Over
      <3> QED  BY <2>2, <3>2, <3>3
    <2>6. CASE PanelResets
      BY <2>1, <2>6 DEF PanelResets, Resets, EmptyPanel, BusyStatuses
    <2> QED  BY <2>3, <2>4, <2>5, <2>6
  <1>6. ASSUME NEW x \in Rows \cup Runs, x \notin astray', db'[x] \in Over \cup RowEnds  PROVE FollowOK(x)'
    <2>1. FollowOK(x) /\ (ShownAsBusy(x)' => ShownAsBusy(x) \/ EndComes(x))
      BY <1>1, <1>4, <1>5, <1>6 DEF StoresOK
    <2> QED  BY <1>1, <1>2, <2>1, FollowKept
  <1> QED  BY <1>3, <1>6 DEF StoresOK

\* The greeting is never taken: its number is that of no event.
LEMMA ConnectionKeepsStores ==
  ASSUME Types, StreamOK, LateOK, RunsOK, StoresOK, Connect \/ ConnectionBreaks \/ ProcessDies \/ Restart
  PROVE  LateOK' /\ RunsOK' /\ StoresOK'
  <1>1. CASE Connect \/ Restart
    <2>1. UNCHANGED <<db, late, callbacks, live, panel, astray, last>>
      BY <1>1 DEF Connect, Restart, Reconcile, backend, gateway, window, stores
    <2>2. Taken' = Taken
      <3>1. CASE Restart
        BY <3>1 DEF Restart, gateway, Taken, OnItsWay
      <3>2. CASE Connect
        <4> PICK g : g = Greeting
          OBVIOUS
        <4>0. g.seq = 0
          BY DEF Greeting, Message
        <4>1. wire = <<>> /\ queue = <<>> /\ wire' = <<g>> /\ queue' = queue
          BY <3>2 DEF Connect, StreamOK
        <4>2. OnItsWay = {} /\ OnItsWay' = {g}
          BY <4>1, EventsOfEmpty, EventsOfOne DEF OnItsWay
        <4>3. last' = last /\ last \in Nat
          BY <2>1 DEF Types
        <4> QED  BY <4>0, <4>2, <4>3 DEF Taken
      <3> QED  BY <1>1, <3>1, <3>2
    <2>3. LateOK' /\ RunsOK'
      BY <2>1, <2>2, RunsKept
    <2>4. \A x \in Rows \cup Runs : FollowOK(x) => FollowOK(x)'
      BY <2>1, <2>2, FollowKept DEF ShownAsBusy
    <2> QED  BY <2>1, <2>3, <2>4 DEF StoresOK
  <1>2. ASSUME CloseConnection  PROVE Taken' = {} /\ TakenEvents' = {} /\ live' = live /\ panel' = panel
    BY <1>2, EventsOfEmpty DEF CloseConnection, Taken, TakenEvents, OnItsWay
  <1>3. TakenEvents \subseteq Streamed
    <2>1. OnItsWay = {Stream[i] : i \in DOMAIN Stream}
      BY StreamOfMessages DEF Events
    <2> QED  BY <2>1 DEF Streamed, TakenEvents, Taken
  <1>4. CASE ConnectionBreaks
    <2>1. CloseConnection /\ Loses(Streamed) /\ UNCHANGED <<backend, callbacks, request>>
      BY <1>4 DEF ConnectionBreaks
    <2>2. late' = late /\ callbacks' = callbacks /\ db' = db
      BY <2>1 DEF backend
    <2>3. astray \subseteq astray' /\ \A e \in Streamed : Corrects(e) => e.id \in astray'
      BY <2>1 DEF Loses
    <2>4. Taken' = {} /\ live' = live /\ panel' = panel
      BY <1>2, <2>1
    <2>5. LateOK' /\ RunsOK'
      BY <2>2, <2>4, RunsKept
    <2>6. ASSUME NEW x \in Rows \cup Runs, x \notin astray', db'[x] \in Over \cup RowEnds  PROVE FollowOK(x)'
      <3>1. FollowOK(x)
        BY <2>2, <2>3, <2>6 DEF StoresOK
      <3>2. \A n \in Taken : ~EndsOf(x, n.event)
        BY <1>3, <2>3, <2>6 DEF EndsOf, TakenEvents
      <3> QED  BY <2>2, <2>4, <3>1, <3>2, FollowKept DEF ShownAsBusy
    <2> QED  BY <2>5, <2>6 DEF StoresOK
  <1>5. CASE ProcessDies
    <2>1. /\ CloseConnection /\ Loses(late \cup Events(callbacks) \cup Streamed) /\ late' = {} /\ callbacks' = <<>>
          /\ db' = [x \in DOMAIN db |-> CASE x \in Runs /\ db[x] \in Working -> "dead"
                                          [] x \in Runs /\ db[x] = "cancelling" -> "stranded"
                                          [] OTHER -> db[x]]
      BY <1>5 DEF ProcessDies
    <2>2. \A e \in WillCome : Corrects(e) => e.id \in astray'
      BY <1>3, <2>1 DEF Loses, WillCome
    <2>3. astray \subseteq astray'
      BY <2>1 DEF Loses
    <2>4. Taken' = {} /\ TakenEvents' = {} /\ live' = live /\ panel' = panel
      BY <1>2, <2>1
    <2>5. WillCome' = {} /\ DOMAIN callbacks' = {}
      BY <2>1, <2>4, EventsOfEmpty DEF WillCome
    <2>6. LateOK' /\ RunsOK'
      BY <2>1, <2>4, <2>5 DEF LateOK, RunsOK, RunOK
    <2>7. ASSUME NEW x \in Rows \cup Runs, x \notin astray', db'[x] \in Over \cup RowEnds  PROVE FollowOK(x)'
      <3>1. DOMAIN db = Rows \cup Runs
        BY DEF Types, DbTypes
      <3>2. db[x] = db'[x]
        BY <2>1, <2>7, <3>1 DEF Over, RowEnds
      <3>3. ShownAsBusy(x)' => EndComes(x)
        BY <2>3, <2>4, <2>7, <3>2 DEF StoresOK, FollowOK, ShownAsBusy
      <3>4. ~EndComes(x)
        BY <2>2, <2>7 DEF EndComes, EndsOf
      <3> QED  BY <2>4, <2>5, <3>3, <3>4 DEF FollowOK
    <2> QED  BY <2>6, <2>7 DEF StoresOK
  <1> QED  BY <1>1, <1>4, <1>5

LEMMA NextKeepsStores ==
  ASSUME Types, StreamOK, LateOK, RunsOK, StoresOK, [Next]_vars
  PROVE  LateOK' /\ RunsOK' /\ StoresOK'
  <1>0. Types'
    BY NextTypes
  <1>1. ASSUME UNCHANGED <<db, late, callbacks, live, panel, astray>>, Taken' = Taken  PROVE LateOK' /\ RunsOK' /\ StoresOK'
    <2>1. LateOK' /\ RunsOK'
      BY <1>1, RunsKept
    <2>2. \A x \in Rows \cup Runs : FollowOK(x) => FollowOK(x)'
      BY <1>1, FollowKept DEF ShownAsBusy
    <2> QED  BY <1>1, <2>1, <2>2 DEF StoresOK
  <1>2. CASE UNCHANGED vars
    <2>1. UNCHANGED <<db, late, callbacks, live, panel, astray, gateway, last>>
      BY <1>2 DEF vars, backend, window, stores
    <2> QED  BY <1>1, <2>1 DEF gateway, Taken, OnItsWay
  <1>3. ASSUME NEW r \in Rows, OfRow(r)  PROVE LateOK' /\ RunsOK' /\ StoresOK'
    <2>1. PICK es \in Seq(EventsOfBus), ls \in SUBSET EventsOfBus :
             /\ Effect(r, es, ls)
             /\ db'[r] \in RowEnds => r \in astray' \/ EndsLast(r, es, ls)
             /\ \A e \in ls : Busies(e) => e.type = "generation.queued"
      BY <1>3, RowEffects
    <2>2. db'[r] \in Over \cup RowEnds => db'[r] \in RowEnds
      BY <1>0 DEF Types, DbTypes, RowStages, RowEnds, Over
    <2> QED  BY <1>0, <2>1, <2>2, EffectKeepsStores
  <1>4. ASSUME NEW d \in Runs, OfRun(d)  PROVE LateOK' /\ RunsOK' /\ StoresOK'
    <2>1. PICK es \in Seq(EventsOfBus), ls \in SUBSET EventsOfBus :
             /\ Effect(d, es, ls)
             /\ db[d] \notin Over /\ \A e \in ls : ~Busies(e)
             /\ \/ db'[d] \in RunStages \ Over /\ \A e \in Events(es) \cup ls : ~EndsOf(d, e)
                \/ db'[d] \in Over /\ EndsLast(d, es, ls)
      BY <1>4, RunEffects
    <2>2. RunOK(d)'
      BY <2>1, EffectKeepsRun DEF RunsOK
    <2>3. EndsLast(d, es, ls) \/ db'[d] \notin Over \cup RowEnds
      BY <2>1 DEF RunStages, Working, RowEnds, Over
    <2> QED  BY <1>0, <2>1, <2>2, <2>3, EffectKeepsStores
  <1>5. ASSUME NEW kind \in Kinds, Changes(kind)  PROVE LateOK' /\ RunsOK' /\ StoresOK'
    <2>1. PICK e \in EventsOfBus : Effect(NoId, <<>>, {e}) /\ <<>> \in Seq(EventsOfBus) /\ e.id = NoId
      BY <1>5, ChangesEffect
    <2>2. {e} \in SUBSET EventsOfBus /\ \A f \in {e} : f.id = NoId
      BY <2>1
    <2> QED  BY <1>0, <2>1, <2>2, EffectKeepsStores
  <1>6. CASE SenderSends
    <2>1. OnItsWay' = OnItsWay /\ UNCHANGED <<db, late, callbacks, live, panel, astray, last>>
      BY <1>6, SenderFacts DEF backend, window, stores
    <2> QED  BY <1>1, <2>1 DEF Taken
  <1> QED
    BY <1>2, <1>3, <1>4, <1>5, <1>6, PublishKeepsStores, FanOutKeepsStores, ReceiveKeepsStores, WindowKeepsStores,
       ConnectionKeepsStores
       DEF Next, Delivers

-----------------------------------------------------------------------------
(* Theorems.                                                               *)

LEMMA GatewayInit == Init => GatewayInv
  <1> SUFFICES ASSUME Init  PROVE GatewayInv
    OBVIOUS
  <1>1. /\ db = [x \in Rows \cup Runs |-> "absent"] /\ latest = NoId /\ late = {} /\ up = TRUE /\ callbacks = <<>>
        /\ open = FALSE /\ queue = <<>> /\ sequence = 0 /\ wire = <<>> /\ last = 0 /\ works = 0 /\ happened = 0
        /\ live = {} /\ panel = EmptyPanel /\ request = NoRequest /\ astray = {}
    BY DEF Init, WindowInit
  <1>2. PICK v \in Watched : query = Fresh(v)
    BY DEF Init, WindowInit
  <1>3. query \in Queries /\ query.behind = FALSE
    BY <1>2 DEF Fresh, Queries
  <1>4. DbTypes(db)
    BY <1>1 DEF DbTypes, RowStages, RunStages
  <1>5. /\ callbacks \in Seq(EventsOfBus) /\ queue \in Seq(Messages) /\ wire \in Seq(Messages)
        /\ Len(queue) = 0 /\ Len(wire) = 0
    BY <1>1, EventsOfEmpty
  <1>6. panel \in Panels /\ request \in PanelRequests
    BY <1>1 DEF Panels, PanelRequests, PanelStatuses, EmptyPanel, NoRequest
  <1>7. Types
    <2>1. /\ 0 \in 0 .. MaxWorks /\ 0 \in 0 .. MaxEvents /\ 0 <= QueueMax /\ 0 <= WireMax
      OBVIOUS
    <2>2. /\ late \subseteq EventsOfBus /\ live \subseteq Rows /\ astray \subseteq AllIds /\ latest \in Runs \cup {NoId}
          /\ up \in BOOLEAN /\ open \in BOOLEAN
      BY <1>1
    <2>3. Len(queue) <= QueueMax /\ Len(wire) <= WireMax
      BY <1>5, <2>1
    <2> QED  BY <1>1, <1>3, <1>4, <1>5, <1>6, <2>1, <2>2, <2>3 DEF Types
  <1>8. StreamOK
    BY <1>1, <1>5 DEF StreamOK
  <1>9. MountOK /\ QueryOK /\ LateOK
    BY <1>1, <1>3 DEF MountOK, QueryOK, LateOK
  <1>10. WillCome = {} /\ Taken = {} /\ DOMAIN callbacks = {}
    BY <1>1, EventsOfEmpty DEF WillCome, TakenEvents, Taken, OnItsWay
  <1>11. RunsOK
    BY <1>10 DEF RunsOK, RunOK
  <1>12. StoresOK
    BY <1>1 DEF StoresOK, Over, RowEnds
  <1> QED  BY <1>7, <1>8, <1>9, <1>11, <1>12 DEF GatewayInv

\* The gateway and the window keep their inductive invariant: the types, the order of
\* the numbers of what is on its way, that a query which is behind and not unheard waits
\* for something, and that the end of what has ended comes after all that shows it busy.
THEOREM GatewayInvariant == Spec => []GatewayInv
  <1>1. Init => GatewayInv
    BY GatewayInit
  <1>2. GatewayInv /\ [Next]_vars => GatewayInv'
    BY NextTypes, NextKeepsQuery, NextKeepsStores DEF GatewayInv
  <1> QED  BY <1>1, <1>2, PTL DEF Spec

\* The types of the gateway and of the window; the buffer and the transport keep within
\* their limits.
THEOREM GatewayTypes == Spec => []TypeOK
  <1>1. GatewayInv => TypeOK
    BY DEF GatewayInv, Types, DbTypes, TypeOK, WindowTypeOK, Panels, PanelRequests, AllIds
  <1> QED  BY <1>1, GatewayInvariant, PTL

\* _fan_out, the client socket and EventRouter: no sequence of drops, late publishes,
\* lost connections, crashes and overtaken answers leaves a query of a connected window
\* silently behind the database.
THEOREM StalenessIsSeen == Spec => []NoSilentStaleness
  <1>1. GatewayInv => NoSilentStaleness
    <2> SUFFICES ASSUME GatewayInv, open, query.behind, ~query.unheard  PROVE FetchIsComing
      BY DEF NoSilentStaleness
    <2>1. Coming = WillCome /\ ((\E i \in DOMAIN Stream : GapBefore(i)) <=> Missing)
      BY TakenFacts DEF GatewayInv
    <2> QED  BY <2>1 DEF GatewayInv, QueryOK, FetchIsComing
  <1> QED  BY <1>1, GatewayInvariant, PTL

\* EventRouter.handle: a row or a run that has ended and is shown as busy has the event
\* of its end on its way, but for the ways in which the code loses or overtakes it.
THEOREM StoresAreCorrected == Spec => []StoresFollow
  <1>1. GatewayInv => StoresFollow
    <2> SUFFICES ASSUME GatewayInv, NEW x \in Rows \cup Runs, ShownAsBusy(x), x \notin astray,
                        db[x] \in Over \cup RowEnds
                 PROVE  \E e \in Coming : e.id = x /\ Corrects(e)
      BY DEF StoresFollow
    <2>1. Coming = WillCome
      BY TakenFacts DEF GatewayInv
    <2>2. EndComes(x)
      BY DEF GatewayInv, StoresOK, FollowOK
    <2> QED  BY <2>1, <2>2 DEF EndComes, EndsOf
  <1> QED  BY <1>1, GatewayInvariant, PTL

=============================================================================
