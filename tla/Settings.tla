------------------------------ MODULE Settings ------------------------------
(***************************************************************************)
(* The settings panel beside a client: save_settings puts a key into the   *)
(* keyring and then an endpoint into the config file, which it reads,      *)
(* changes and replaces (gui.py, config_io.py); init_workspace copies the  *)
(* example where it has seen no file. Nothing locks either of them, and    *)
(* the server runs each call in a thread of its own.                       *)
(*                                                                         *)
(* The client of LlmClient is of a shell that loads the config when it     *)
(* starts and reads the key at its first request: in the keyring, or in    *)
(* its environment when the keyring has none or cannot be read.            *)
(***************************************************************************)
EXTENDS LlmClient, FiniteSets

CONSTANT Saves    \* the calls of save_settings, each with an endpoint of its own

ASSUME SettingsAssumption == None \notin Saves /\ IsFiniteSet(Saves)

VARIABLES
    keyring,   \* how many keys have been stored: the last of them is the one it holds
    file,      \* the config file: its base_url, and the hosts it allows
    save,      \* where each save is, and what it has read of the file
    scaffold,  \* where init_workspace is
    config,    \* what the client's shell has loaded
    env,       \* its environment has a key: LCP_LLM_API_KEY
    key,       \* the key the client is built with; the one of the environment is 0
    given,     \* history: the key each endpoint was saved with, or was saved over
    passedOver \* history: the keyring had a key and did not give it

saveVars == <<keyring, file, save, scaffold, given>>
shellVars == <<config, env, key, passedOver>>
allVars == <<vars, saveVars, shellVars>>

\* The example and a file that is not there name neither an endpoint nor a host.
Example == [url |-> None, hosts |-> {}]
Files == [url : Saves \cup {None}, hosts : SUBSET Saves]
Content(f) == IF f = None THEN Example ELSE f

SettingsTypeOK ==
    /\ ClientTypeOK
    /\ keyring \in 0..Cardinality(Saves)
    /\ file \in Files \cup {None}
    /\ save \in [Saves -> [at : {"new", "key", "read", "write", "done"}, seen : Files]]
    /\ scaffold \in {"idle", "absent", "done"}
    /\ config \in Files \cup {None}
    /\ env \in BOOLEAN /\ passedOver \in BOOLEAN
    /\ key \in 0..keyring
    /\ given \in [Saves -> 0..Cardinality(Saves)]

SaveGoes(s, from, to) == save[s].at = from /\ save' = [save EXCEPT ![s].at = to]

\* save_settings: the address is in order; with a key or, to keep the one there is,
\* without.
Save(s) ==
    /\ \E next \in {"key", "read"} : SaveGoes(s, "new", next)
    /\ given' = [given EXCEPT ![s] = keyring]
    /\ UNCHANGED <<keyring, file, scaffold>>

\* Mutant: a key the keyring has not taken is no reason to stop.
StoreKeyOrNot(s) ==
    /\ SaveGoes(s, "key", "read")
    /\ keyring' \in {keyring, keyring + 1}
    /\ given' = [given EXCEPT ![s] = keyring + 1]
    /\ UNCHANGED <<file, scaffold>>

\* set_llm_api_key: the key first.
StoreKey(s) ==
    /\ SaveGoes(s, "key", "read")
    /\ keyring' = keyring + 1
    /\ given' = [given EXCEPT ![s] = keyring + 1]
    /\ UNCHANGED <<file, scaffold>>

\* update_llm_config_file: read, merge, replace.
ReadFile(s) ==
    /\ save[s].at = "read"
    /\ save' = [save EXCEPT ![s] = [at |-> "write", seen |-> Content(file)]]
    /\ UNCHANGED <<keyring, file, scaffold, given>>

WriteFile(s) ==
    /\ SaveGoes(s, "write", "done")
    /\ file' = [url |-> s, hosts |-> save[s].seen.hosts \cup {s}]
    /\ UNCHANGED <<keyring, scaffold, given>>

\* The keyring refuses, the disk is full, or the server dies: no step is undone.
SaveFails(s) ==
    /\ save[s].at \in {"key", "read", "write"}
    /\ save' = [save EXCEPT ![s].at = "done"]
    /\ UNCHANGED <<keyring, file, scaffold, given>>

\* init_workspace: is there a file; if there was none, the example is put there.
LookForFile ==
    /\ scaffold = "idle"
    /\ scaffold' = IF file = None THEN "absent" ELSE "done"
    /\ UNCHANGED <<keyring, file, save, given>>

CopyExample ==
    /\ scaffold = "absent"
    /\ scaffold' = "done"
    /\ file' = Example
    /\ UNCHANGED <<keyring, save, given>>

-----------------------------------------------------------------------------
\* The client's shell starts: load_config.
LoadConfig ==
    /\ config = None
    /\ config' = Content(file)
    /\ UNCHANGED <<vars, saveVars, env, key, passedOver>>

\* resolve_api_key: the key of the keyring; without one, or when the keyring raises,
\* the one of the environment.
ResolveKey ==
    \/ /\ keyring > 0
       /\ key' = keyring
       /\ UNCHANGED passedOver
    \/ /\ env
       /\ key' = 0
       /\ passedOver' = (passedOver \/ keyring > 0)

\* _ensure_client: the address, then the key, and the client is kept.
FirstEnsure ==
    /\ config # None /\ ~built /\ config.url \in config.hosts
    /\ Ensure
    /\ ResolveKey
    /\ UNCHANGED <<saveVars, config, env>>

\* What chat does else. It is refused for what _ensure_client looks at: the address,
\* and the key, of which there is none when the environment has none and the keyring
\* is empty or raises.
OtherChat ==
    /\ config # None
    /\ \/ Skip \/ Pass \/ Failed \/ Answered
       \/ built /\ Ensure
       \/ Refused /\ (config.url \notin config.hosts \/ ~env)
    /\ UNCHANGED <<saveVars, shellVars>>

SettingsInit ==
    /\ Init
    /\ keyring = 0
    /\ file \in {None, Example}
    /\ save = [s \in Saves |-> [at |-> "new", seen |-> Example]]
    /\ scaffold = "idle"
    /\ config = None
    /\ env \in BOOLEAN
    /\ key = 0
    /\ passedOver = FALSE
    /\ given = [s \in Saves |-> 0]

SettingsNext ==
    \/ /\ \/ \E s \in Saves :
                Save(s) \/ StoreKey(s) \/ ReadFile(s) \/ WriteFile(s) \/ SaveFails(s)
          \/ LookForFile \/ CopyExample
       /\ UNCHANGED <<vars, shellVars>>
    \/ LoadConfig \/ FirstEnsure \/ OtherChat
    \/ Tick /\ UNCHANGED <<saveVars, shellVars>>

SettingsSpec == SettingsInit /\ [][SettingsNext]_allVars

-----------------------------------------------------------------------------
(***************************************************************************)
(* Properties                                                              *)
(***************************************************************************)

\* Whatever saves overlap, fail half-way or are met by an init: an address that a
\* shell has loaded is allowed by what it has loaded with it, and the key that its
\* client comes to use is no older than the one that address was saved with - the
\* key is stored before the address, and read after it. The one exception is the key
\* of the environment, which goes to any address when the keyring has a key and cannot
\* be read at that moment; never because the keyring had none yet.
ClientIsFit ==
    /\ config # None /\ config.url # None => config.url \in config.hosts
    /\ built /\ config.url # None =>
          key >= given[config.url] \/ (env /\ key = 0 /\ passedOver)
=============================================================================
