----------------------------- MODULE VaultFiles -----------------------------
(***************************************************************************)
(* Files that leave VAULT encrypted and come back: the packages that the   *)
(* callers keep, the envelopes and key providers they are sealed with, and *)
(* the settings the server is restarted with in between (src/app/crypto.py,*)
(* key_management.py, config.py, share_package.py and the file routes of   *)
(* main.py).                                                               *)
(***************************************************************************)
CONSTANTS
    Package,     \* the identifiers of packages; a package holds a file of its own
    Managed,     \* the managed key backends
    KeyId,       \* their key ids
    MasterKey,   \* the values VAULT_MASTER_KEY_B64 has had
    Offered,     \* the settings the server may be started with
    Code,        \* access codes of share packages
    LongCode,    \* those of at least 12 characters
    None         \* not running, no key, no package

Setting == [backend : {"local"} \cup Managed, key : KeyId \cup {None},
            master : MasterKey \cup {None}, reach : SUBSET Managed,
            production : BOOLEAN, override : BOOLEAN]

Answers ==
    ({"package", "failed", "share"} \X Package) \cup ({"file"} \X Package \X Package)
        \cup ({"original", "denied"} \X Package \X Package \X Code)

ASSUME FilesAssumption ==
    /\ "local" \notin Managed
    /\ Offered \subseteq Setting
    /\ LongCode \subseteq Code
    /\ None \notin KeyId \cup MasterKey \cup Setting \cup Managed \cup Package \cup Answers

VARIABLES
    server,      \* the settings of the running server, or None
    package,     \* the encrypted files callers hold
    share,       \* the share packages callers hold
    noted,       \* the audit entries the last request committed
    told         \* what it was answered, or None

held == <<package, share>>
answers == <<noted, told>>
vars == <<server, held, answers>>

-----------------------------------------------------------------------------
(***************************************************************************)
(* load_settings: the local backend needs its master key, and production   *)
(* needs a managed one unless it is overridden.                            *)
(***************************************************************************)
Accepted(s) ==
    /\ s.backend = "local" => s.master # None
    /\ s.production /\ s.backend = "local" => s.override

(* get_key_provider: what the provider of an envelope needs from the server. *)
Provides(s, provider, key) ==
    IF provider = "local" THEN s.master # None ELSE provider \in s.reach /\ key # None

(***************************************************************************)
(* encrypt_bytes writes v2 envelopes that name the provider and the key.   *)
(* `seal' stands for the key material the data key is wrapped with, `aad'  *)
(* for the additional data both layers authenticate.                       *)
(***************************************************************************)
WrapKey(s) == IF s.backend = "local" THEN "local-master" ELSE s.key
Material(s, provider, key) == IF provider = "local" THEN s.master ELSE <<provider, key>>

CanSeal(s) == Provides(s, s.backend, WrapKey(s))

Sealed_WithoutAad(s, id) ==
    [v |-> 2, provider |-> s.backend, key |-> WrapKey(s),
     seal |-> Material(s, s.backend, WrapKey(s)), aad |-> None]
Sealed(s, id) ==
    [v |-> 2, provider |-> s.backend, key |-> WrapKey(s),
     seal |-> Material(s, s.backend, WrapKey(s)), aad |-> id]

(* _decrypt_legacy_v1 uses the configured master key. *)
OpensV1(s, e) == s.master # None /\ e.seal = s.master

(* decrypt_bytes asks the provider and the key that a v2 envelope names. *)
OpensV2_Configured(s, e) == CanSeal(s) /\ e.seal = Material(s, s.backend, WrapKey(s))
OpensV2(s, e) == Provides(s, e.provider, e.key) /\ e.seal = Material(s, e.provider, e.key)

Opens(s, e, id) ==
    /\ IF e.v = 1 THEN OpensV1(s, e) ELSE OpensV2(s, e)
    /\ e.aad \in {id, None}  \* None: nothing was authenticated

-----------------------------------------------------------------------------
(* A package from before the v2 envelopes may be about. *)
Legacy(m, k) == [under |-> None, envelope |-> [v |-> 1, seal |-> m, aad |-> k]]

Init ==
    /\ server = None
    /\ \E old \in SUBSET Package, m \in MasterKey :
          package = [k \in Package |-> IF k \in old THEN Legacy(m, k) ELSE None]
    /\ share = [k \in Package |-> None]
    /\ noted = {}
    /\ told = None

Start(s) ==
    /\ server = None
    /\ Accepted(s)
    /\ server' = s
    /\ UNCHANGED <<held, answers>>

Stop ==
    /\ server # None
    /\ server' = None
    /\ UNCHANGED <<held, answers>>

(***************************************************************************)
(* An answer is given after its audit entries are committed.  The ids of   *)
(* copies and share packages are made up for the entry alone.              *)
(***************************************************************************)
Answer_NotesLater(answer, entries) == told' = answer /\ noted' = {}
Answer(answer, entries) == told' = answer /\ noted' = entries

(* encrypt_file, and military_file_protect in its encrypting mode. *)
Encrypt(k) ==
    /\ server # None /\ CanSeal(server)
    /\ package[k] = None
    /\ package' = [package EXCEPT ![k] = [under |-> server, envelope |-> Sealed(server, k)]]
    /\ Answer(<<"package", k>>, {<<"file_encrypted", k>>})
    /\ UNCHANGED <<server, share>>

(***************************************************************************)
(* decrypt_file of an upload with the id of k, an envelope, and a format   *)
(* label.  Only the id is authenticated with the envelope: the envelope    *)
(* may be that of j, and the label `military' is what the upload says.     *)
(* The refusal of a military file is raised inside the try block: it is    *)
(* noted, and then noted and answered as a failure.  The two entries are   *)
(* transactions of their own, and the database may be gone for either.     *)
(***************************************************************************)
Failure == <<"file_decryption_failed", None>>
Blocked(k) == <<"military_plaintext_export_blocked", k>>

Decrypt(k, j, military) ==
    /\ server # None
    /\ package[k] # None /\ package[j] # None
    /\ IF military
       THEN \/ \E entries \in {{Failure}, {Blocked(k), Failure}} : Answer(<<"failed", k>>, entries)
            \/ noted' = {Blocked(k)} /\ told' = None
       ELSE IF Opens(server, package[j].envelope, k)
       THEN Answer(<<"file", k, j>>, {<<"file_decrypted", k>>})
       ELSE Answer(<<"failed", k>>, {Failure})
    /\ UNCHANGED <<server, held>>

-----------------------------------------------------------------------------
(* create_share_package: nothing of the server's keys is used. *)
Share(k, code) ==
    /\ server # None
    /\ share[k] = None
    /\ code \in LongCode
    /\ share' = [share EXCEPT ![k] = [code |-> code, manifest |-> k]]
    /\ Answer(<<"share", k>>, {<<"share_package_created", None>>})
    /\ UNCHANGED <<server, package>>

(***************************************************************************)
(* unlock_share of the share package k, whose manifest has become that of  *)
(* j if it was damaged: name, type and percentage are authenticated.       *)
(***************************************************************************)
Unlocks_AnyManifest(k, j, code) == code \in LongCode /\ code = share[k].code
Unlocks(k, j, code) ==
    /\ code \in LongCode /\ code = share[k].code
    /\ share[j].manifest = share[k].manifest

Unlock(k, j, code) ==
    /\ server # None
    /\ share[k] # None /\ share[j] # None
    /\ IF Unlocks(k, j, code)
       THEN Answer(<<"original", k, j, code>>, {<<"share_unlocked", None>>})
       ELSE Answer(<<"denied", k, j, code>>, {<<"share_unlock_denied", None>>})
    /\ UNCHANGED <<server, held>>

Next ==
    \/ \E s \in Offered : Start(s)
    \/ Stop
    \/ \E k \in Package : Encrypt(k)
    \/ \E k, j \in Package, military \in BOOLEAN : Decrypt(k, j, military)
    \/ \E k, j \in Package, code \in Code : Share(k, code) \/ Unlock(k, j, code)

Spec == Init /\ [][Next]_vars

-----------------------------------------------------------------------------
(* The audit entry that says what a caller is answered. *)
EntryOf(answer) ==
    CASE answer[1] = "package" -> <<"file_encrypted", answer[2]>>
      [] answer[1] = "file" -> <<"file_decrypted", answer[2]>>
      [] answer[1] = "failed" -> Failure
      [] answer[1] = "share" -> <<"share_package_created", None>>
      [] answer[1] = "original" -> <<"share_unlocked", None>>
      [] answer[1] = "denied" -> <<"share_unlock_denied", None>>

Envelope ==
    [v : {1}, seal : MasterKey, aad : Package]
        \cup [v : {2}, provider : {"local"}, key : {"local-master"}, seal : MasterKey,
              aad : Package]
        \cup [v : {2}, provider : Managed, key : KeyId, seal : Managed \X KeyId, aad : Package]

(***************************************************************************)
(* The variables keep to their types, the server has the key its settings  *)
(* need, and nobody is answered without an audit entry (config.py:54-58,   *)
(* main.py:1084-1088, 1097-1121, 1174-1212).                               *)
(***************************************************************************)
TypeOK ==
    /\ server \in Offered \cup {None}
    /\ server = None \/ server.backend # "local" \/ server.master # None
    /\ package \in [Package -> [under : Offered \cup {None}, envelope : Envelope] \cup {None}]
    /\ share \in [Package -> [code : LongCode, manifest : Package] \cup {None}]
    /\ told \in Answers \cup {None}
    /\ told # None => EntryOf(told) \in noted

(***************************************************************************)
(* A package gives back the file that was sealed under its id or nothing,  *)
(* through any change of keys: an envelope does not open under the id of   *)
(* another package, whatever else its header says (crypto.py:16-20, 51-73; *)
(* main.py:1079-1081, 1099-1111).                                          *)
(***************************************************************************)
FileComesBack == \A k, j \in Package : told = <<"file", k, j>> => k = j

(***************************************************************************)
(* Switching the key backend or rotating a managed key id loses no file:   *)
(* while the server is still given what a package was sealed with -- the   *)
(* same master key, or credentials for the same managed backend -- the     *)
(* package opens, whatever backend and key id are configured now           *)
(* (key_management.py:170-186, crypto.py:51-73).                           *)
(***************************************************************************)
SuppliedTo(s, p) ==
    IF p.envelope.v = 1 THEN s.master = p.envelope.seal
    ELSE IF p.under.backend = "local" THEN s.master = p.under.master
    ELSE p.under.backend \in s.reach

SwitchKeepsFilesReadable ==
    \A k \in Package : (server # None /\ package[k] # None) =>
        (SuppliedTo(server, package[k]) => Opens(server, package[k].envelope, k))

(***************************************************************************)
(* A share package opens with its code and its own manifest, and with      *)
(* nothing else, whatever settings the server has been restarted with      *)
(* since (share_package.py:45-57, 103-118).                                *)
(***************************************************************************)
ShareOpensToItsCode ==
    \A k, j \in Package, code \in Code :
        /\ told = <<"original", k, j, code>> => k = j /\ code = share[k].code
        /\ told = <<"denied", k, j, code>> => ~(k = j /\ code = share[k].code)

=============================================================================
