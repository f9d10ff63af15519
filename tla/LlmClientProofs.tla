--------------------------- MODULE LlmClientProofs ---------------------------
(***************************************************************************)
(* The LLM client, and the settings it is built from. First the client: the*)
(* cool-down holds for every threshold and every length of window.         *)
(*                                                                         *)
(* SparesProvider is not inductive: it says nothing of the request that is *)
(* about to fail. The strengthening ties the client's two fields to the    *)
(* history - the counter is the length of the streak, the deadline is the  *)
(* last failure plus the window - and adds that once the streak is long    *)
(* enough nobody gets past the gate before that deadline.                  *)
(***************************************************************************)
EXTENDS Settings, FiniteSetTheorems, TLAPS

Last == failed[Len(failed)]
Long == Len(failed) >= Threshold

\* The fields say what has happened.
FieldsAreHistory ==
    /\ failures = Len(failed)
    /\ \A i \in DOMAIN failed : failed[i] <= now
    /\ until # None => Long /\ until = Last + Seconds

\* With a long streak and no deadline, the window is over.
WindowIsOver ==
    /\ pc # "idle" => until = None
    /\ Long /\ until = None => now >= Last + Seconds

ClientInv == ClientTypeOK /\ FieldsAreHistory /\ WindowIsOver /\ SparesProvider

\* The client starts with an empty streak and no deadline.
LEMMA ClientInit == Init => ClientInv
<1> SUFFICES ASSUME Init PROVE ClientInv
  OBVIOUS
<1>1. failed = <<>> /\ Len(failed) = 0
  BY DEF Init
<1>2. DOMAIN failed = {}
  BY <1>1
<1>3. ClientTypeOK
  <2>1. failed \in Seq(Nat)
    BY <1>1
  <2>2. result \in {"none", "skipped", "refused", "failed", "answered"} \X Nat
    BY DEF Init
  <2> QED BY <2>1, <2>2 DEF Init, ClientTypeOK
<1>4. ~Long
  BY <1>1, ClientAssumption DEF ClientAssumption, Long
<1>5. SparesProvider
  BY <1>2 DEF SparesProvider
<1> QED BY <1>1, <1>2, <1>3, <1>4, <1>5 DEF Init, ClientInv, FieldsAreHistory, WindowIsOver

\* Every step of chat and every tick of the clock keeps the invariant.
LEMMA ClientStep == ClientInv /\ [Next]_vars => ClientInv'
<1> SUFFICES ASSUME ClientInv, [Next]_vars PROVE ClientInv'
  OBVIOUS
<1> USE ClientAssumption DEF ClientAssumption, ClientInv, ClientTypeOK, FieldsAreHistory,
        WindowIsOver, SparesProvider, Long, Last, clientVars, Outcome
<1>1. CASE Skip
  BY <1>1 DEF Skip
<1>2. CASE Pass
  BY <1>2 DEF Pass
<1>3. CASE Refused
  BY <1>3 DEF Refused
<1>4. CASE Ensure
  BY <1>4 DEF Ensure
<1>5. CASE Failed
  <2>1. failed' = Append(failed, now) /\ now' = now /\ Len(failed') = Len(failed) + 1
    BY <1>5 DEF Failed
  <2>2. ClientTypeOK'
    BY <1>5 DEF Failed
  <2>3. /\ \A i \in DOMAIN failed : failed'[i] = failed[i]
        /\ failed'[Len(failed')] = now
        /\ DOMAIN failed' = 1 .. Len(failed) + 1
        /\ DOMAIN failed = 1 .. Len(failed)
        /\ Len(failed) \in Nat
    BY <2>1
  <2>4. FieldsAreHistory'
    BY <1>5, <2>1, <2>2, <2>3 DEF Failed
  <2>5. WindowIsOver'
    BY <1>5, <2>1, <2>3 DEF Failed
  <2>6. SparesProvider'
    <3> SUFFICES ASSUME NEW i \in DOMAIN failed', Threshold <= i, i < Len(failed')
                 PROVE  failed'[i + 1] - failed'[i] >= Seconds
      OBVIOUS
    <3>1. i \in 1 .. Len(failed) /\ i \in DOMAIN failed
      <4>1. i \in 1 .. Len(failed) + 1
        BY <2>3
      <4>2. i < Len(failed) + 1
        BY <2>1
      <4>3. i \in 1 .. Len(failed)
        BY <2>3, <4>1, <4>2
      <4> QED BY <2>3, <4>3
    <3>2. CASE i < Len(failed)
      <4>1. failed[i + 1] - failed[i] >= Seconds
        BY <3>1, <3>2
      <4>2. i + 1 \in 1 .. Len(failed)
        BY <2>3, <3>1, <3>2
      <4>3. i + 1 \in DOMAIN failed
        BY <2>3, <4>2
      <4> QED BY <2>3, <3>1, <4>1, <4>3
    <3>3. CASE i = Len(failed)
      BY <1>5, <2>1, <2>3, <3>1, <3>3 DEF Failed
    <3> QED BY <2>3, <3>1, <3>2, <3>3
  <2> QED BY <2>2, <2>4, <2>5, <2>6
<1>6. CASE Answered
  BY <1>6 DEF Answered
<1>7. CASE Tick
  BY <1>7 DEF Tick
<1>8. CASE UNCHANGED vars
  BY <1>8 DEF vars
<1> QED BY <1>1, <1>2, <1>3, <1>4, <1>5, <1>6, <1>7, <1>8 DEF Next, Chat

\* From the Threshold-th failure in a row on, requests fail at least Seconds apart,
\* whatever the threshold and the window are.
THEOREM ProviderIsSpared == Spec => []SparesProvider
<1>1. ClientInv => SparesProvider
  BY DEF ClientInv
<1> QED BY <1>1, ClientInit, ClientStep, PTL DEF Spec

\* No call is skipped without a streak of Threshold failures, nor after its window.
THEOREM SkipsAreCaused == Spec => SkippedForCause
<1>1. ClientInv /\ [Next]_vars =>
        [result' # result /\ result'[1] = "skipped" =>
            /\ Len(failed) >= Threshold
            /\ now < failed[Len(failed)] + Seconds]_vars
  <2> SUFFICES ASSUME ClientInv, Next, result' # result, result'[1] = "skipped"
               PROVE  Len(failed) >= Threshold /\ now < failed[Len(failed)] + Seconds
    BY DEF vars
  <2>1. CASE Skip
    BY <2>1 DEF Skip, ClientInv, FieldsAreHistory, Long, Last
  <2>2. CASE Refused \/ Failed \/ Answered
    BY <2>2 DEF Refused, Failed, Answered, Outcome
  <2>3. CASE Pass \/ Ensure \/ Tick
    BY <2>3 DEF Pass, Ensure, Tick
  <2> QED BY <2>1, <2>2, <2>3 DEF Next, Chat
<1> QED BY <1>1, ClientInit, ClientStep, PTL DEF Spec, SkippedForCause


-----------------------------------------------------------------------------
(***************************************************************************)
(* The settings beside a client, for any number of saves: the types, that  *)
(* an address never comes with a host it is not allowed by or with a key of *)
(* the keyring older than its own, and that the client is still LlmClient's, so that   *)
(* what is proved of it above holds here as well.                          *)
(***************************************************************************)

\* The saves that have stored a key, or will not store one any more.
Stored == {s \in Saves : save[s].at \notin {"new", "key"}}

\* The types, without the bound on how many keys there are.
FilesOK ==
    /\ keyring \in Nat
    /\ file \in Files \cup {None}
    /\ save \in [Saves -> [at : {"new", "key", "read", "write", "done"}, seen : Files]]
    /\ scaffold \in {"idle", "absent", "done"}
    /\ config \in Files \cup {None}
    /\ key \in Nat
    /\ given \in [Saves -> Nat]
    /\ built \in BOOLEAN
    /\ env \in BOOLEAN /\ passedOver \in BOOLEAN

\* No more keys than saves that have come so far, and none newer than the last.
KeysAreCounted ==
    /\ keyring <= Cardinality(Stored)
    /\ key <= keyring
    /\ \A s \in Saves : given[s] <= keyring

\* An address is in a file only when its save is through, so that the key it was
\* saved with is known by then.
AddressIsSaved(f) ==
    f # None /\ f.url # None => save[f.url].at = "done" /\ f.url \in f.hosts

SettingsInv ==
    /\ FilesOK
    /\ KeysAreCounted
    /\ AddressIsSaved(file)
    /\ AddressIsSaved(config)
    /\ built => config # None
    /\ ClientIsFit

-----------------------------------------------------------------------------
\* A step of a save, of an init or of neither leaves the client alone.
SaveStep == \E s \in Saves :
    Save(s) \/ StoreKey(s) \/ ReadFile(s) \/ WriteFile(s) \/ SaveFails(s)

\* A file that is there is a record of its fields.
LEMMA FilesAreRecords ==
    /\ Example \in Files /\ Example.url = None
    /\ \A f \in Files \cup {None} : Content(f) \in Files
    /\ \A f \in Files, s \in Saves : [url |-> s, hosts |-> f.hosts \cup {s}] \in Files
    /\ \A f \in Files : f.url # None => f.url \in Saves
  BY DEF Example, Files, Content

\* At first nothing is saved and nothing is loaded.
LEMMA SettingsStart == SettingsInit => SettingsInv
<1> SUFFICES ASSUME SettingsInit PROVE SettingsInv
  OBVIOUS
<1> USE DEF SettingsInit, Init
<1>1. FilesOK
  <2>1. file \in Files \cup {None} /\ config \in Files \cup {None}
    BY FilesAreRecords
  <2>2. save \in [Saves -> [at : {"new", "key", "read", "write", "done"}, seen : Files]]
    BY FilesAreRecords
  <2>3. built \in BOOLEAN
    OBVIOUS
  <2> QED
    BY <2>1, <2>2, <2>3 DEF FilesOK
<1>2. KeysAreCounted
  <2>1. Stored \subseteq Saves
    BY DEF Stored
  <2>2. Cardinality(Stored) \in Nat
    BY <2>1, FS_Subset, FS_CardinalityType, SettingsAssumption
  <2> QED
    BY <2>2 DEF KeysAreCounted
<1>3. AddressIsSaved(file) /\ AddressIsSaved(config)
  BY FilesAreRecords DEF AddressIsSaved
<1>4. ClientIsFit
  BY DEF ClientIsFit
<1> QED
  BY <1>1, <1>2, <1>3, <1>4 DEF SettingsInv

\* Where a save goes, only Stored grows, by that save at most.
LEMMA StoredGrows ==
    ASSUME FilesOK, FilesOK', NEW s \in Saves,
           \A r \in Saves \ {s} : save'[r].at = save[r].at,
           save[s].at \notin {"new", "key"} => save'[s].at \notin {"new", "key"}
    PROVE  /\ Cardinality(Stored) \in Nat /\ Cardinality(Stored') \in Nat
           /\ Cardinality(Stored) <= Cardinality(Stored')
           /\ save[s].at = "key" /\ save'[s].at = "read" =>
                 Cardinality(Stored') = Cardinality(Stored) + 1
<1>1. Stored \subseteq Stored' /\ Stored' \subseteq Saves
  BY DEF Stored
<1>2. IsFiniteSet(Stored') /\ IsFiniteSet(Stored)
  BY <1>1, FS_Subset, SettingsAssumption
<1>3. ASSUME save[s].at = "key", save'[s].at = "read"
      PROVE  Stored' = Stored \cup {s} /\ s \notin Stored
  BY <1>3 DEF Stored
<1>4. save[s].at = "key" /\ save'[s].at = "read" =>
         Cardinality(Stored') = Cardinality(Stored) + 1
  BY <1>2, <1>3, FS_AddElement
<1> QED
  BY <1>1, <1>2, <1>4, FS_Subset, FS_CardinalityType

\* A save writes an address and a key of the types.
LEMMA SavesKeepTypes ==
    ASSUME FilesOK, SaveStep, UNCHANGED <<vars, shellVars>>
    PROVE  FilesOK'
<1> USE DEF FilesOK, vars, clientVars, shellVars
<1> PICK s \in Saves :
        Save(s) \/ StoreKey(s) \/ ReadFile(s) \/ WriteFile(s) \/ SaveFails(s)
  BY DEF SaveStep
<1>1. CASE Save(s)
  BY <1>1 DEF Save, SaveGoes
<1>2. CASE StoreKey(s)
  BY <1>2 DEF StoreKey, SaveGoes
<1>3. CASE ReadFile(s)
  <2>1. Content(file) \in Files
    BY FilesAreRecords
  <2> QED
    BY <1>3, <2>1 DEF ReadFile
<1>4. CASE WriteFile(s)
  <2>1. file' \in Files
    BY <1>4, FilesAreRecords DEF WriteFile
  <2> QED
    BY <1>4, <2>1 DEF WriteFile, SaveGoes
<1>5. CASE SaveFails(s)
  BY <1>5 DEF SaveFails
<1> QED
  BY <1>1, <1>2, <1>3, <1>4, <1>5

\* A save puts the key in the keyring before its address in the file.
LEMMA SavesKeepInv ==
    ASSUME SettingsInv, SaveStep, UNCHANGED <<vars, shellVars>>
    PROVE  SettingsInv'
<1> USE DEF vars, clientVars, shellVars
<1>1. FilesOK /\ FilesOK'
  BY SavesKeepTypes DEF SettingsInv
<1> PICK s \in Saves :
        Save(s) \/ StoreKey(s) \/ ReadFile(s) \/ WriteFile(s) \/ SaveFails(s)
  BY DEF SaveStep
<1>2. /\ \A r \in Saves \ {s} : save'[r].at = save[r].at /\ given'[r] = given[r]
      /\ save[s].at \notin {"new", "key"} => save'[s].at \notin {"new", "key"}
      /\ save[s].at # "done"
      /\ \/ keyring' = keyring
         \/ keyring' = keyring + 1 /\ save[s].at = "key" /\ save'[s].at = "read"
      /\ given'[s] \in {given[s], keyring'}
  <2> USE <1>1 DEF FilesOK
  <2>1. CASE Save(s)
    BY <2>1 DEF Save, SaveGoes
  <2>2. CASE StoreKey(s)
    BY <2>2 DEF StoreKey, SaveGoes
  <2>3. CASE ReadFile(s)
    BY <2>3 DEF ReadFile
  <2>4. CASE WriteFile(s)
    BY <2>4 DEF WriteFile, SaveGoes
  <2>5. CASE SaveFails(s)
    BY <2>5 DEF SaveFails
  <2> QED
    BY <2>1, <2>2, <2>3, <2>4, <2>5
<1>3. KeysAreCounted'
  <2>1. /\ Cardinality(Stored) \in Nat /\ Cardinality(Stored') \in Nat
        /\ Cardinality(Stored) <= Cardinality(Stored')
        /\ save[s].at = "key" /\ save'[s].at = "read" =>
              Cardinality(Stored') = Cardinality(Stored) + 1
    BY <1>1, <1>2, StoredGrows
  <2>2. keyring' <= Cardinality(Stored')
    BY <1>1, <1>2, <2>1 DEF SettingsInv, KeysAreCounted, FilesOK
  <2>3. key' <= keyring' /\ \A r \in Saves : given'[r] <= keyring'
    BY <1>1, <1>2 DEF SettingsInv, KeysAreCounted, FilesOK
  <2> QED
    BY <2>2, <2>3 DEF KeysAreCounted
<1>4. AddressIsSaved(config)'
  BY <1>1, <1>2, FilesAreRecords DEF SettingsInv, AddressIsSaved, FilesOK
<1>5. AddressIsSaved(file)'
  <2>1. CASE file' = file
    BY <2>1, <1>1, <1>2, FilesAreRecords DEF SettingsInv, AddressIsSaved, FilesOK
  <2>2. CASE WriteFile(s)
    <3>1. save'[s].at = "done"
      BY <2>2, <1>1 DEF WriteFile, SaveGoes, FilesOK
    <3>2. file'.url = s /\ s \in file'.hosts
      BY <2>2 DEF WriteFile
    <3> QED
      BY <3>1, <3>2 DEF AddressIsSaved
  <2> QED
    BY <2>1, <2>2 DEF Save, StoreKey, ReadFile, SaveFails
<1>6. ClientIsFit'
  BY <1>1, <1>2, FilesAreRecords DEF SettingsInv, AddressIsSaved, ClientIsFit, FilesOK
<1> QED
  BY <1>1, <1>3, <1>4, <1>5, <1>6 DEF SettingsInv

\* A shell loads an address of the file, or a default, and the keys of the keyring.
LEMMA InitsKeepInv ==
    ASSUME SettingsInv, LookForFile \/ CopyExample, UNCHANGED <<vars, shellVars>>
    PROVE  SettingsInv'
<1> USE DEF vars, clientVars, shellVars
<1>1. FilesOK'
  BY FilesAreRecords DEF SettingsInv, FilesOK, LookForFile, CopyExample
<1>2. KeysAreCounted'
  BY DEF SettingsInv, KeysAreCounted, Stored, LookForFile, CopyExample
<1>3. AddressIsSaved(file)' /\ AddressIsSaved(config)'
  BY FilesAreRecords DEF SettingsInv, AddressIsSaved, LookForFile, CopyExample
<1>4. ClientIsFit'
  BY DEF SettingsInv, ClientIsFit, LookForFile, CopyExample
<1> QED
  BY <1>1, <1>2, <1>3, <1>4 DEF SettingsInv

\* A step of the client, of its shell or of the clock.
CallStep == LoadConfig \/ FirstEnsure \/ OtherChat \/ (Tick /\ UNCHANGED <<saveVars, shellVars>>)

\* A call of the client touches no setting.
LEMMA ClientKeepsInv ==
    ASSUME SettingsInv, CallStep
    PROVE  SettingsInv'
<1> USE DEF saveVars, vars, clientVars, shellVars
<1>1. CASE LoadConfig
  <2>1. Content(file) \in Files /\ (Content(file).url # None => Content(file) = file)
    BY FilesAreRecords DEF Content, SettingsInv, FilesOK
  <2>2. FilesOK' /\ KeysAreCounted'
    BY <1>1, <2>1 DEF LoadConfig, SettingsInv, FilesOK, KeysAreCounted, Stored
  <2>3. AddressIsSaved(file)'
    BY <1>1 DEF LoadConfig, SettingsInv, AddressIsSaved
  <2>4. AddressIsSaved(config)'
    <3>1. config' = Content(file) /\ save' = save
      BY <1>1 DEF LoadConfig
    <3>2. Content(file).url # None => file # None /\ Content(file) = file
      BY <2>1, FilesAreRecords DEF Content
    <3> QED
      BY <3>1, <3>2 DEF SettingsInv, AddressIsSaved
  <2>5. ClientIsFit' /\ (built' => config' # None)
    <3>1. ~built /\ built' = built
      BY <1>1 DEF LoadConfig, SettingsInv
    <3>2. config'.url # None => config'.url \in config'.hosts
      BY <2>1, <2>4, <1>1, FilesAreRecords DEF LoadConfig, AddressIsSaved, Content
    <3> QED
      BY <3>1, <3>2 DEF ClientIsFit
  <2> QED
    BY <2>2, <2>3, <2>4, <2>5 DEF SettingsInv
<1>2. CASE FirstEnsure
  <2>1. FilesOK' /\ KeysAreCounted'
    BY <1>2 DEF FirstEnsure, ResolveKey, Ensure, SettingsInv, FilesOK, KeysAreCounted, Stored
  <2>2. AddressIsSaved(file)' /\ AddressIsSaved(config)' /\ config' # None
    BY <1>2 DEF FirstEnsure, SettingsInv, AddressIsSaved
  <2>3. ClientIsFit'
    <3>1. config \in Files /\ (config.url # None => config.url \in Saves)
      BY <1>2, FilesAreRecords DEF FirstEnsure, SettingsInv, FilesOK
    <3>2. config.url # None => given[config.url] <= keyring
      BY <3>1 DEF SettingsInv, KeysAreCounted
    <3> QED
      BY <1>2, <3>1, <3>2 DEF FirstEnsure, ResolveKey, SettingsInv, ClientIsFit, FilesOK,
         KeysAreCounted
  <2> QED
    BY <2>1, <2>2, <2>3 DEF SettingsInv
<1>3. CASE OtherChat \/ (Tick /\ UNCHANGED <<saveVars, shellVars>>)
  <2>1. built' = built /\ UNCHANGED <<saveVars, shellVars>>
    BY <1>3 DEF OtherChat, Skip, Pass, Failed, Answered, Ensure, Refused, Tick, SettingsInv, FilesOK
  <2>2. FilesOK' /\ KeysAreCounted'
    BY <2>1 DEF SettingsInv, FilesOK, KeysAreCounted, Stored
  <2>3. AddressIsSaved(file)' /\ AddressIsSaved(config)' /\ ClientIsFit'
    BY <2>1 DEF SettingsInv, AddressIsSaved, ClientIsFit
  <2> QED
    BY <2>1, <2>2, <2>3 DEF SettingsInv
<1> QED
  BY <1>1, <1>2, <1>3 DEF CallStep

\* The invariant, in every reachable state.
LEMMA SettingsInvHolds == SettingsSpec => []SettingsInv
<1>1. SettingsInv /\ [SettingsNext]_allVars => SettingsInv'
  <2> SUFFICES ASSUME SettingsInv, [SettingsNext]_allVars PROVE SettingsInv'
    OBVIOUS
  <2>1. CASE UNCHANGED allVars
    BY <2>1 DEF allVars, saveVars, vars, clientVars, shellVars, SettingsInv, FilesOK, KeysAreCounted,
                Stored, AddressIsSaved, ClientIsFit
  <2>2. CASE SettingsNext
    BY <2>2, SavesKeepInv, InitsKeepInv, ClientKeepsInv DEF SettingsNext, SaveStep, CallStep
  <2> QED
    BY <2>1, <2>2
<1> QED
  BY <1>1, SettingsStart, PTL DEF SettingsSpec

\* An address a shell has loaded is allowed by what came with it, and the key its
\* client uses is no older than the one that address was saved with, whatever saves
\* overlap, fail or are met by an init; unless the keyring had a key and was not read, so
\* that the one of the environment is used. The code: Api.save_settings, resolve_api_key.
THEOREM ClientStaysFit == SettingsSpec => []ClientIsFit
<1>1. SettingsInv => ClientIsFit
  BY DEF SettingsInv
<1> QED
  BY <1>1, SettingsInvHolds, PTL

-----------------------------------------------------------------------------
\* The client of Settings is that of LlmClient: a step of SettingsNext is one of its
\* steps or leaves it alone. The code: LlmClient.chat.
THEOREM SettingsKeepTheClient == SettingsSpec => Spec
<1>1. SettingsInit => Init
  BY DEF SettingsInit
<1>2. [SettingsNext]_allVars => [Next]_vars
  BY DEF SettingsNext, allVars, LoadConfig, FirstEnsure, OtherChat, Next, Chat
<1> QED
  BY <1>1, <1>2, PTL DEF SettingsSpec, Spec

\* The types of the settings and of the client. The code: config_io.py, client.py.
THEOREM SettingsTypeCorrect == SettingsSpec => []SettingsTypeOK
<1>1. SettingsInv /\ ClientTypeOK => SettingsTypeOK
  <2> SUFFICES ASSUME SettingsInv, ClientTypeOK PROVE SettingsTypeOK
    OBVIOUS
  <2>1. Cardinality(Stored) \in Nat /\ Cardinality(Saves) \in Nat
        /\ Cardinality(Stored) <= Cardinality(Saves)
    <3>1. Stored \subseteq Saves
      BY DEF Stored
    <3> QED
      BY <3>1, FS_Subset, FS_CardinalityType, SettingsAssumption
  <2> QED
    BY <2>1 DEF SettingsInv, FilesOK, KeysAreCounted, SettingsTypeOK
<1>2. Spec => []ClientTypeOK
  <2>1. ClientInv => ClientTypeOK
    BY DEF ClientInv
  <2> QED
    BY <2>1, ClientInit, ClientStep, PTL DEF Spec
<1> QED
  BY <1>1, <1>2, SettingsInvHolds, SettingsKeepTheClient, PTL

\* A provider that is down is left alone in the presence of saves as well.
THEOREM ProviderIsSparedBesideSaves == SettingsSpec => []SparesProvider
  BY SettingsKeepTheClient, ProviderIsSpared, PTL
=============================================================================
