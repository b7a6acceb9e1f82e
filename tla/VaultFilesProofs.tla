-------------------------- MODULE VaultFilesProofs ---------------------------
(***************************************************************************)
(* Encrypted files open, and open to nothing but themselves, for any files *)
(* and share packages and through any sequence of settings.                *)
(***************************************************************************)
EXTENDS VaultFiles, TLAPS

(***************************************************************************)
(* A package is sealed under its own id: a v2 one as the settings that     *)
(* were in force did, and were able to.                                    *)
(***************************************************************************)
PackagesSealed ==
    \A k \in Package : package[k] # None =>
        /\ package[k].envelope.aad = k
        /\ package[k].envelope.v # 1 =>
              /\ package[k].under \in Offered /\ CanSeal(package[k].under)
              /\ package[k].envelope = Sealed(package[k].under, k)

(* A share package has the manifest it was authenticated with. *)
SharesSealed == \A k \in Package : share[k] # None => share[k].manifest = k

IInv ==
    /\ TypeOK /\ PackagesSealed /\ SharesSealed
    /\ FileComesBack /\ ShareOpensToItsCode

-----------------------------------------------------------------------------
LEMMA NoneIsApart ==
    /\ None \notin KeyId /\ None \notin MasterKey /\ None \notin Setting
    /\ \A k, j \in Package : <<"file", k, j>> # None
    /\ \A k, j \in Package, code \in Code :
          <<"original", k, j, code>> # None /\ <<"denied", k, j, code>> # None
BY FilesAssumption DEF Answers

(* What seals an envelope is an envelope. *)
LEMMA SealedEnvelope ==
    ASSUME NEW s \in Offered, CanSeal(s), NEW k \in Package
    PROVE  Sealed(s, k) \in Envelope
<1>1. /\ s.backend \in {"local"} \cup Managed
      /\ s.key \in KeyId \cup {None} /\ s.master \in MasterKey \cup {None}
  BY FilesAssumption DEF Setting
<1>2. CASE s.backend = "local"
  <2>1. s.master \in MasterKey
    BY <1>1, <1>2 DEF CanSeal, Provides
  <2>2. Sealed(s, k) = [v |-> 2, provider |-> "local", key |-> "local-master",
                        seal |-> s.master, aad |-> k]
    BY <1>2 DEF Sealed, WrapKey, Material
  <2> QED BY <2>1, <2>2 DEF Envelope
<1>3. CASE s.backend # "local"
  <2>1. s.backend \in Managed /\ s.key \in KeyId
    BY <1>1, <1>3 DEF CanSeal, Provides, WrapKey
  <2>2. Sealed(s, k) = [v |-> 2, provider |-> s.backend, key |-> s.key,
                        seal |-> <<s.backend, s.key>>, aad |-> k]
    BY <1>3 DEF Sealed, WrapKey, Material
  <2> QED BY <2>1, <2>2 DEF Envelope
<1> QED BY <1>2, <1>3

LEMMA LegacyRow ==
    ASSUME NEW m \in MasterKey, NEW k \in Package
    PROVE  /\ Legacy(m, k) \in [under : Offered \cup {None}, envelope : Envelope]
           /\ Legacy(m, k).envelope.v = 1 /\ Legacy(m, k).envelope.aad = k
BY DEF Legacy, Envelope

LEMMA InitSafe ==
    ASSUME Init
    PROVE  IInv
<1>1. PICK old \in SUBSET Package, m \in MasterKey :
          package = [k \in Package |-> IF k \in old THEN Legacy(m, k) ELSE None]
  BY DEF Init
<1>2. server = None /\ told = None /\ share = [k \in Package |-> None]
  BY DEF Init
<1>3. TypeOK
  BY <1>1, <1>2, LegacyRow DEF TypeOK
<1>4. PackagesSealed
  BY <1>1, LegacyRow DEF PackagesSealed
<1>5. SharesSealed
  BY <1>2 DEF SharesSealed
<1>6. FileComesBack /\ ShareOpensToItsCode
  BY <1>2, NoneIsApart DEF FileComesBack, ShareOpensToItsCode
<1> QED BY <1>3, <1>4, <1>5, <1>6 DEF IInv

(* The settings come and go; files, share packages and answers stay. *)
LEMMA SettingsSafe ==
    ASSUME IInv, Stop \/ \E s \in Offered : Start(s)
    PROVE  IInv'
<1>1. UNCHANGED <<package, share, noted, told>>
  BY DEF Stop, Start, held, answers
<1>2. /\ server' \in Offered \cup {None}
      /\ server' = None \/ server'.backend # "local" \/ server'.master # None
  BY DEF Stop, Start, Accepted
<1>3. TypeOK'
  BY <1>1, <1>2 DEF IInv, TypeOK
<1>4. PackagesSealed' /\ SharesSealed' /\ FileComesBack' /\ ShareOpensToItsCode'
  BY <1>1 DEF IInv, PackagesSealed, SharesSealed, FileComesBack, ShareOpensToItsCode
<1> QED BY <1>3, <1>4 DEF IInv

(* An answer that is not a file or an opened or refused share says nothing wrong. *)
LEMMA PlainAnswer ==
    ASSUME told' = None \/ \E kind \in {"package", "failed", "share"}, k \in Package : told' = <<kind, k>>
    PROVE  FileComesBack' /\ ShareOpensToItsCode'
BY NoneIsApart DEF FileComesBack, ShareOpensToItsCode

LEMMA EncryptSafe ==
    ASSUME IInv, NEW k \in Package, Encrypt(k)
    PROVE  IInv'
<1> DEFINE row == [under |-> server, envelope |-> Sealed(server, k)]
<1>1. /\ server \in Offered /\ CanSeal(server)
      /\ package' = [package EXCEPT ![k] = row]
      /\ told' = <<"package", k>> /\ noted' = {<<"file_encrypted", k>>}
      /\ UNCHANGED <<server, share>>
  BY DEF Encrypt, Answer, IInv, TypeOK
<1>2. row \in [under : Offered \cup {None}, envelope : Envelope]
  BY <1>1, SealedEnvelope
<1>3. row.under = server /\ row.envelope = Sealed(server, k) /\ row.envelope.aad = k
  BY DEF Sealed
<1> HIDE DEF row
<1>4. package'[k] = row /\ \A j \in Package \ {k} : package'[j] = package[j]
  BY <1>1 DEF IInv, TypeOK
<1>5. TypeOK'
  <2>1. package' \in [Package -> [under : Offered \cup {None}, envelope : Envelope] \cup {None}]
    BY <1>1, <1>2 DEF IInv, TypeOK
  <2>2. told' \in Answers /\ EntryOf(told)' \in noted'
    BY <1>1 DEF Answers, EntryOf
  <2> QED BY <1>1, <2>1, <2>2 DEF IInv, TypeOK
<1>6. PackagesSealed'
  <2> SUFFICES ASSUME NEW j \in Package, package'[j] # None
               PROVE  /\ package'[j].envelope.aad = j
                      /\ package'[j].envelope.v # 1 =>
                            /\ package'[j].under \in Offered /\ CanSeal(package'[j].under)
                            /\ package'[j].envelope = Sealed(package'[j].under, j)
    BY DEF PackagesSealed, CanSeal, Provides, WrapKey, Sealed, Material
  <2>1. CASE j = k
    BY <2>1, <1>1, <1>3, <1>4
  <2>2. CASE j # k
    BY <2>2, <1>4 DEF IInv, PackagesSealed
  <2> QED BY <2>1, <2>2
<1>7. SharesSealed'
  BY <1>1 DEF IInv, SharesSealed
<1>8. FileComesBack' /\ ShareOpensToItsCode'
  BY <1>1, PlainAnswer
<1> QED BY <1>5, <1>6, <1>7, <1>8 DEF IInv

LEMMA DecryptSafe ==
    ASSUME IInv, NEW k \in Package, NEW j \in Package, NEW military \in BOOLEAN,
           Decrypt(k, j, military)
    PROVE  IInv'
<1>1. /\ package[k] # None /\ package[j] # None /\ UNCHANGED <<server, package, share>>
      /\ \/ told' = None
         \/ told' = <<"failed", k>> /\ Failure \in noted'
         \/ /\ Opens(server, package[j].envelope, k)
            /\ told' = <<"file", k, j>> /\ noted' = {<<"file_decrypted", k>>}
  BY DEF Decrypt, Answer, held
<1>2. PackagesSealed' /\ SharesSealed'
  BY <1>1 DEF IInv, PackagesSealed, SharesSealed
<1>3. TypeOK'
  <2>1. told' \in Answers \cup {None} /\ (told' # None => EntryOf(told)' \in noted')
    BY <1>1 DEF Answers, EntryOf, Failure
  <2> QED BY <1>1, <2>1 DEF IInv, TypeOK
<1>4. CASE told' = <<"file", k, j>>
  <2>1. package[j].envelope.aad \in {k, None} /\ package[j].envelope.aad = j
    BY <1>1, <1>4, NoneIsApart DEF Opens, IInv, PackagesSealed
  <2>2. j = k
    BY <2>1, FilesAssumption
  <2>3. FileComesBack'
    BY <1>1, <1>4, <2>1, <2>2 DEF FileComesBack
  <2>4. ShareOpensToItsCode'
    BY <1>4 DEF ShareOpensToItsCode
  <2> QED BY <1>2, <1>3, <2>3, <2>4 DEF IInv
<1>5. CASE told' # <<"file", k, j>>
  BY <1>1, <1>2, <1>3, <1>5, PlainAnswer DEF IInv
<1> QED BY <1>4, <1>5

LEMMA ShareSafe ==
    ASSUME IInv, NEW k \in Package, NEW code \in Code, Share(k, code)
    PROVE  IInv'
<1>1. /\ code \in LongCode
      /\ share' = [share EXCEPT ![k] = [code |-> code, manifest |-> k]]
      /\ told' = <<"share", k>> /\ noted' = {<<"share_package_created", None>>}
      /\ UNCHANGED <<server, package>>
  BY DEF Share, Answer
<1>2. TypeOK'
  <2>1. share' \in [Package -> [code : LongCode, manifest : Package] \cup {None}]
    BY <1>1 DEF IInv, TypeOK
  <2>2. told' \in Answers /\ EntryOf(told)' \in noted'
    BY <1>1 DEF Answers, EntryOf
  <2> QED BY <1>1, <2>1, <2>2 DEF IInv, TypeOK
<1>3. PackagesSealed' /\ SharesSealed'
  BY <1>1 DEF IInv, TypeOK, PackagesSealed, SharesSealed
<1>4. FileComesBack' /\ ShareOpensToItsCode'
  BY <1>1, PlainAnswer
<1> QED BY <1>2, <1>3, <1>4 DEF IInv

LEMMA UnlockSafe ==
    ASSUME IInv, NEW k \in Package, NEW j \in Package, NEW code \in Code, Unlock(k, j, code)
    PROVE  IInv'
<1>1. /\ share[k] # None /\ share[j] # None /\ UNCHANGED <<server, package, share>>
      /\ \/ /\ Unlocks(k, j, code)
            /\ told' = <<"original", k, j, code>> /\ noted' = {<<"share_unlocked", None>>}
         \/ /\ ~Unlocks(k, j, code)
            /\ told' = <<"denied", k, j, code>> /\ noted' = {<<"share_unlock_denied", None>>}
  BY DEF Unlock, Answer, held
<1>2. TypeOK'
  <2>1. told' \in Answers /\ EntryOf(told)' \in noted'
    BY <1>1 DEF Answers, EntryOf
  <2> QED BY <1>1, <2>1 DEF IInv, TypeOK
<1>3. PackagesSealed' /\ SharesSealed' /\ FileComesBack'
  BY <1>1 DEF IInv, PackagesSealed, SharesSealed, FileComesBack
<1>4. Unlocks(k, j, code) <=> k = j /\ code = share[k].code
  <2>1. share[k].code \in LongCode /\ share[k].manifest = k /\ share[j].manifest = j
    BY <1>1 DEF IInv, TypeOK, SharesSealed
  <2> QED BY <2>1 DEF Unlocks
<1>5. ShareOpensToItsCode'
  BY <1>1, <1>4 DEF ShareOpensToItsCode
<1> QED BY <1>2, <1>3, <1>5 DEF IInv

LEMMA Inductive == Spec => []IInv
<1>1. Init => IInv
  BY InitSafe
<1>2. IInv /\ [Next]_vars => IInv'
  <2> SUFFICES ASSUME IInv, [Next]_vars PROVE IInv'
    OBVIOUS
  <2>1. CASE UNCHANGED vars
    BY <2>1 DEF vars, held, answers, IInv, TypeOK, PackagesSealed, SharesSealed,
                FileComesBack, ShareOpensToItsCode
  <2>2. CASE Next
    BY <2>2, SettingsSafe, EncryptSafe, DecryptSafe, ShareSafe, UnlockSafe DEF Next
  <2> QED BY <2>1, <2>2
<1> QED BY <1>1, <1>2, PTL DEF Spec

-----------------------------------------------------------------------------
(***************************************************************************)
(* Whatever settings the server is restarted with, it has the key they     *)
(* need, files and shares keep their shape, and nobody is answered without *)
(* an audit entry (config.py:54-58, main.py:1084-1088, 1174-1212).         *)
(***************************************************************************)
THEOREM TypeCorrect == Spec => []TypeOK
<1>1. IInv => TypeOK
  BY DEF IInv
<1> QED BY <1>1, Inductive, PTL

(***************************************************************************)
(* For any number of packages whose envelopes change places, and any       *)
(* settings in between, an upload opens to the file that was sealed under  *)
(* the id it names or not at all (crypto.py:16-20, 51-73; main.py:         *)
(* 1099-1111).                                                             *)
(***************************************************************************)
THEOREM FilesComeBack == Spec => []FileComesBack
<1>1. IInv => FileComesBack
  BY DEF IInv
<1> QED BY <1>1, Inductive, PTL

(***************************************************************************)
(* Whatever backends, key ids and master keys were configured in between,  *)
(* a package opens while the server has what it was sealed with            *)
(* (key_management.py:170-186, crypto.py:51-73).                           *)
(***************************************************************************)
THEOREM SwitchSafe == Spec => []SwitchKeepsFilesReadable
<1>1. IInv => SwitchKeepsFilesReadable
  <2> SUFFICES ASSUME IInv, NEW k \in Package, server # None, package[k] # None,
                      SuppliedTo(server, package[k])
               PROVE  Opens(server, package[k].envelope, k)
    BY DEF SwitchKeepsFilesReadable
  <2> DEFINE e == package[k].envelope
             u == package[k].under
  <2>1. e \in Envelope /\ e.aad = k
    BY DEF IInv, TypeOK, PackagesSealed
  <2>2. CASE e.v = 1
    <3>1. e.seal \in MasterKey
      BY <2>1, <2>2 DEF Envelope
    <3> QED BY <2>1, <2>2, <3>1, NoneIsApart DEF SuppliedTo, Opens, OpensV1
  <2>3. CASE e.v # 1
    <3>1. u \in Offered /\ CanSeal(u) /\ e = Sealed(u, k)
      BY <2>3 DEF IInv, PackagesSealed
    <3>2. CASE u.backend = "local"
      <4>1. e.provider = "local" /\ e.seal = u.master /\ u.master # None
        BY <3>1, <3>2 DEF CanSeal, Provides, Sealed, WrapKey, Material
      <4>2. server.master = u.master
        BY <2>3, <3>2 DEF SuppliedTo
      <4> QED BY <2>1, <2>3, <4>1, <4>2 DEF Opens, OpensV2, Provides, Material
    <3>3. CASE u.backend # "local"
      <4>1. e.provider = u.backend /\ e.key = u.key /\ e.seal = <<u.backend, u.key>> /\ u.key # None
        BY <3>1, <3>3 DEF CanSeal, Provides, Sealed, WrapKey, Material
      <4>2. u.backend \in server.reach
        BY <2>3, <3>3 DEF SuppliedTo
      <4> QED BY <2>1, <2>3, <3>3, <4>1, <4>2 DEF Opens, OpensV2, Provides, Material
    <3> QED BY <3>2, <3>3
  <2> QED BY <2>2, <2>3
<1> QED BY <1>1, Inductive, PTL

(***************************************************************************)
(* A share package opens to its code and its own manifest alone, through   *)
(* any restarts (share_package.py:45-57, 103-118).                         *)
(***************************************************************************)
THEOREM SharesOpen == Spec => []ShareOpensToItsCode
<1>1. IInv => ShareOpensToItsCode
  BY DEF IInv
<1> QED BY <1>1, Inductive, PTL

=============================================================================
