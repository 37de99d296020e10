---------------------------- MODULE StartupProofs ----------------------------
(***************************************************************************)
(* For every number of applications, keys, requests and gateway entries,   *)
(* and every sequence of crashes, failed writes and failed requests:       *)
(* mepauth never loses a secret, serves only behind a complete gateway     *)
(* and answers no request with an internal error; mepserver keeps its      *)
(* certificate password.                                                   *)
(*                                                                         *)
(* The inductive invariant says what the files may look like at each point *)
(* of a start: as long as key files are being written there is no work key *)
(* that could be decrypted, hence nothing that was encrypted with one.     *)
(***************************************************************************)
EXTENDS MepauthTokens, TLAPS

WritingKeys == {"comp", "salt", "wkey", "wnonce"}
WritingPwd == {"pwd", "pnonce"}

\* Files do not vanish: without both parts of the root key there has never
\* been a work key.
RootFirst ==
  /\ comp = Missing \/ salt = Missing => wkey = Missing
  /\ at \in {"comp", "salt"} => wkey = Missing

\* The work key is written only while there is none; the nonce that is drawn
\* for it is not the one that is there.
WorkKeyOnce ==
  /\ at = "wkey" => HasRoot /\ (wkey = Missing \/ wnonce = Missing)
  /\ at \in {"wkey", "wnonce"} => mem # wnonce
  /\ at = "wnonce" => ~Decryptable(wkey, wnonce)

\* The same for the certificate password.
CertPwdOnce ==
  program = "mepserver" =>
    /\ at = "pwd" => pwd = Missing
    /\ at \in WritingPwd => mem # pnonce
    /\ at = "pnonce" => ~Decryptable(pwd, pnonce)

\* What mepauth writes is what it will read.
JwtPwdMade ==
  /\ at \in WritingPwd \cup {"initapp"} => WorkKey # NoKey
  /\ at = "pnonce" /\ ~bad => pwd = [key |-> WorkKey, nonce |-> mem]
  /\ program = "mepauth" /\ at \in {"initapp", "up"} => PwdReadable

\* SecretsReadable, and there is a key.
Secrets ==
  \A a \in Apps : db[a] # NoRecord => WorkKey # NoKey /\ db[a].key = WorkKey

\* The entries are made in order, and only then mepauth goes on.
GatewayInOrder ==
  /\ at # "gateway" => entry = 1
  /\ at = "gateway" => \A e \in GatewayEntries : e < entry => e \in gw
  /\ program = "mepauth" /\ https /\ at \in WritingPwd \cup {"jwt", "initapp", "up"} =>
       gw = GatewayEntries
  /\ at = "cert" => program = "mepserver"
  /\ at \in {"gateway", "jwt", "initapp"} => program = "mepauth"

MemDrawn == at \in WritingKeys \cup WritingPwd => mem \in Ids


StartInv ==
  /\ StartTypeOK /\ MemDrawn
  /\ RootFirst /\ WorkKeyOnce /\ CertPwdOnce
  /\ JwtPwdMade /\ Secrets /\ GatewayInOrder

\* The invariant holds where main has not been run yet: there are no files and
\* no records.
LEMMA StartInvInit ==
  ASSUME StartInit
  PROVE  StartInv
<1>1. StartTypeOK
  <2>1. entry \in 1 .. (NGateway + 1) /\ faults \in 0 .. MaxFaults
    BY StartAssumption DEF StartInit
  <2> QED
    BY <2>1 DEF StartInit, StartTypeOK
<1>2. MemDrawn /\ RootFirst /\ WorkKeyOnce /\ CertPwdOnce /\ JwtPwdMade
  BY DEF StartInit, MemDrawn, RootFirst, WorkKeyOnce, CertPwdOnce, JwtPwdMade, WritingKeys,
     WritingPwd
<1>3. Secrets /\ GatewayInOrder
  BY DEF StartInit, Secrets, GatewayInOrder, WritingPwd
<1> QED  BY <1>1, <1>2, <1>3 DEF StartInv

\* It speaks of the variables of Startup only.
LEMMA StutterKeeps ==
  ASSUME StartInv, UNCHANGED startVars
  PROVE  StartInv'
BY DEF startVars, settings, files, StartInv, StartTypeOK, MemDrawn, RootFirst, WorkKeyOnce,
   CertPwdOnce, JwtPwdMade, Secrets, GatewayInOrder, HasRoot, RootKey, Decryptable, WorkKey,
   PwdReadable
----------------------------------------------------------------------------
(* One lemma per action.                                                   *)

USE StartAssumption DEF settings, files, WritingKeys, WritingPwd

\* A start that finds no database changes nothing but the count of failures.
LEMMA StartKeeps ==
  ASSUME StartInv, Start
  PROVE  StartInv'
<1> USE DEF StartInv, Start
<1>1. StartTypeOK'
  BY DEF StartTypeOK, MemDrawn, WorkKeyOnce, JwtPwdMade, WorkKey, HasRoot,
     RootKey, Decryptable, InitDatabase, NoFault, Fault
<1>2. MemDrawn' /\ RootFirst' /\ WorkKeyOnce'
  BY DEF StartTypeOK, MemDrawn, RootFirst, WorkKeyOnce, HasRoot,
     Decryptable, InitDatabase, NoFault, Fault
<1>3. CertPwdOnce'
  BY DEF StartTypeOK, CertPwdOnce, MemDrawn, GatewayInOrder, Decryptable,
     InitDatabase, NoFault, Fault
<1>4. JwtPwdMade'
  BY DEF StartTypeOK, JwtPwdMade, MemDrawn, GatewayInOrder, PwdReadable,
     WorkKey, HasRoot, RootKey, Decryptable, InitDatabase, NoFault, Fault
<1>5. Secrets'
  BY DEF StartTypeOK, Secrets, RootFirst, WorkKeyOnce, JwtPwdMade, WorkKey,
     HasRoot, RootKey, Decryptable, InitDatabase, NoFault, Fault
<1>6. GatewayInOrder'
  BY DEF StartTypeOK, GatewayInOrder, GatewayEntries, InitDatabase, NoFault,
     Fault
<1> QED  BY <1>1, <1>2, <1>3, <1>4, <1>5, <1>6

\* The key files are made only if one of the root key's is missing; then
\* there is no work key yet.
LEMMA InitRootKeyKeeps ==
  ASSUME StartInv, InitRootKey
  PROVE  StartInv'
<1> USE DEF StartInv, InitRootKey
<1>1. StartTypeOK'
  BY DEF StartTypeOK, MemDrawn, WorkKeyOnce, JwtPwdMade, WorkKey, HasRoot,
     RootKey, Decryptable, Draw, UsedIds
<1>2. MemDrawn' /\ RootFirst' /\ WorkKeyOnce'
  BY DEF StartTypeOK, MemDrawn, RootFirst, WorkKeyOnce, HasRoot,
     Decryptable, Draw, UsedIds
<1>3. CertPwdOnce'
  BY DEF StartTypeOK, CertPwdOnce, MemDrawn, GatewayInOrder, Decryptable,
     Draw, UsedIds
<1>4. JwtPwdMade'
  BY DEF StartTypeOK, JwtPwdMade, MemDrawn, GatewayInOrder, PwdReadable,
     WorkKey, HasRoot, RootKey, Decryptable, Draw, UsedIds
<1>5. Secrets'
  BY DEF StartTypeOK, Secrets, RootFirst, WorkKeyOnce, JwtPwdMade, WorkKey,
     HasRoot, RootKey, Decryptable, Draw, UsedIds
<1>6. GatewayInOrder'
  BY DEF StartTypeOK, GatewayInOrder, GatewayEntries, Draw, UsedIds
<1> QED  BY <1>1, <1>2, <1>3, <1>4, <1>5, <1>6

\* WriteComponent preserves the invariant.
LEMMA WriteComponentKeeps ==
  ASSUME StartInv, WriteComponent
  PROVE  StartInv'
<1> USE DEF StartInv, WriteComponent
<1>1. StartTypeOK'
  BY DEF StartTypeOK, MemDrawn, WorkKeyOnce, JwtPwdMade, WorkKey, HasRoot,
     RootKey, Decryptable, Written, Fault, NoFault
<1>2. MemDrawn' /\ RootFirst' /\ WorkKeyOnce'
  BY DEF StartTypeOK, MemDrawn, RootFirst, WorkKeyOnce, HasRoot,
     Decryptable, Written, Fault, NoFault
<1>3. CertPwdOnce'
  BY DEF StartTypeOK, CertPwdOnce, MemDrawn, GatewayInOrder, Decryptable,
     Written, Fault, NoFault
<1>4. JwtPwdMade'
  BY DEF StartTypeOK, JwtPwdMade, MemDrawn, GatewayInOrder, PwdReadable,
     WorkKey, HasRoot, RootKey, Decryptable, Written, Fault, NoFault
<1>5. Secrets'
  BY DEF StartTypeOK, Secrets, RootFirst, WorkKeyOnce, JwtPwdMade, WorkKey,
     HasRoot, RootKey, Decryptable, Written, Fault, NoFault
<1>6. GatewayInOrder'
  BY DEF StartTypeOK, GatewayInOrder, GatewayEntries, Written, Fault,
     NoFault
<1> QED  BY <1>1, <1>2, <1>3, <1>4, <1>5, <1>6

\* Whatever became of the two files, no work key was made with what they held
\* before.
LEMMA WriteSaltKeeps ==
  ASSUME StartInv, WriteSalt
  PROVE  StartInv'
<1> USE DEF StartInv, WriteSalt
<1>1. StartTypeOK'
  <2>1. entry' \in 1 .. (NGateway + 1) /\ faults' \in 0 .. MaxFaults
    BY DEF StartTypeOK, GatewayEntries, Written, Fault, NoFault,
       InitializationFailed, Exit
  <2>2. https' \in BOOLEAN /\ bad' \in BOOLEAN
    BY DEF StartTypeOK, Written, Fault, NoFault, InitializationFailed, Exit
  <2> QED
    BY <2>1, <2>2 DEF StartTypeOK, MemDrawn, WorkKeyOnce, JwtPwdMade,
       WorkKey, HasRoot, RootKey, Decryptable, Written, Fault, NoFault,
       InitializationFailed, Exit
<1>2. MemDrawn' /\ RootFirst' /\ WorkKeyOnce'
  BY DEF StartTypeOK, MemDrawn, RootFirst, WorkKeyOnce, HasRoot,
     Decryptable, Written, Fault, NoFault, InitializationFailed, Exit
<1>3. CertPwdOnce'
  BY DEF StartTypeOK, CertPwdOnce, MemDrawn, GatewayInOrder, Decryptable,
     Written, Fault, NoFault, InitializationFailed, Exit
<1>4. JwtPwdMade'
  BY DEF StartTypeOK, JwtPwdMade, MemDrawn, GatewayInOrder, PwdReadable,
     WorkKey, HasRoot, RootKey, Decryptable, Written, Fault, NoFault,
     InitializationFailed, Exit
<1>5. Secrets'
  BY DEF StartTypeOK, Secrets, RootFirst, WorkKeyOnce, JwtPwdMade, WorkKey,
     HasRoot, RootKey, Decryptable, Written, Fault, NoFault,
     InitializationFailed, Exit
<1>6. GatewayInOrder'
  BY DEF StartTypeOK, GatewayInOrder, GatewayEntries, Written, Fault,
     NoFault, InitializationFailed, Exit
<1> QED  BY <1>1, <1>2, <1>3, <1>4, <1>5, <1>6

\* A work key is made only if one of its files is missing; then none can be
\* decrypted, and nothing is on record.
LEMMA InitWorkKeyKeeps ==
  ASSUME StartInv, InitWorkKey
  PROVE  StartInv'
<1> USE DEF StartInv, InitWorkKey
<1>1. StartTypeOK'
  <2>1. entry' \in 1 .. (NGateway + 1) /\ faults' \in 0 .. MaxFaults
    BY DEF StartTypeOK, GatewayEntries, AfterKeys, Draw, UsedIds, Exit
  <2>2. https' \in BOOLEAN /\ bad' \in BOOLEAN
    BY DEF StartTypeOK, AfterKeys, Draw, UsedIds, Exit
  <2> QED
    BY <2>1, <2>2 DEF StartTypeOK, MemDrawn, WorkKeyOnce, JwtPwdMade,
       WorkKey, HasRoot, RootKey, Decryptable, AfterKeys, Draw, UsedIds,
       Exit
<1>2. MemDrawn' /\ RootFirst' /\ WorkKeyOnce'
  BY DEF StartTypeOK, MemDrawn, RootFirst, WorkKeyOnce, HasRoot,
     Decryptable, AfterKeys, Draw, UsedIds, Exit
<1>3. CertPwdOnce'
  BY DEF StartTypeOK, CertPwdOnce, MemDrawn, GatewayInOrder, Decryptable,
     AfterKeys, Draw, UsedIds, Exit
<1>4. JwtPwdMade'
  BY DEF StartTypeOK, JwtPwdMade, MemDrawn, GatewayInOrder, PwdReadable,
     WorkKey, HasRoot, RootKey, Decryptable, AfterKeys, Draw, UsedIds, Exit
<1>5. Secrets'
  BY DEF StartTypeOK, Secrets, RootFirst, WorkKeyOnce, JwtPwdMade, WorkKey,
     HasRoot, RootKey, Decryptable, AfterKeys, Draw, UsedIds, Exit
<1>6. GatewayInOrder'
  BY DEF StartTypeOK, GatewayInOrder, GatewayEntries, AfterKeys, Draw,
     UsedIds, Exit
<1> QED  BY <1>1, <1>2, <1>3, <1>4, <1>5, <1>6

\* The new cipher text does not go with the old nonce.
LEMMA WriteWorkKeyKeeps ==
  ASSUME StartInv, WriteWorkKey
  PROVE  StartInv'
<1> USE DEF StartInv, WriteWorkKey
<1>1. StartTypeOK'
  BY DEF StartTypeOK, MemDrawn, WorkKeyOnce, JwtPwdMade, WorkKey, HasRoot,
     RootKey, Decryptable, Written, Fault, NoFault
<1>2. MemDrawn' /\ RootFirst' /\ WorkKeyOnce'
  BY DEF StartTypeOK, MemDrawn, RootFirst, WorkKeyOnce, HasRoot,
     Decryptable, Written, Fault, NoFault
<1>3. CertPwdOnce'
  BY DEF StartTypeOK, CertPwdOnce, MemDrawn, GatewayInOrder, Decryptable,
     Written, Fault, NoFault
<1>4. JwtPwdMade'
  BY DEF StartTypeOK, JwtPwdMade, MemDrawn, GatewayInOrder, PwdReadable,
     WorkKey, HasRoot, RootKey, Decryptable, Written, Fault, NoFault
<1>5. Secrets'
  BY DEF StartTypeOK, Secrets, RootFirst, WorkKeyOnce, JwtPwdMade, WorkKey,
     HasRoot, RootKey, Decryptable, Written, Fault, NoFault
<1>6. GatewayInOrder'
  BY DEF StartTypeOK, GatewayInOrder, GatewayEntries, Written, Fault,
     NoFault
<1> QED  BY <1>1, <1>2, <1>3, <1>4, <1>5, <1>6

\* WriteWorkKeyNonce preserves the invariant.
LEMMA WriteWorkKeyNonceKeeps ==
  ASSUME StartInv, WriteWorkKeyNonce
  PROVE  StartInv'
<1> USE DEF StartInv, WriteWorkKeyNonce
<1>1. StartTypeOK'
  <2>1. entry' \in 1 .. (NGateway + 1) /\ faults' \in 0 .. MaxFaults
    BY DEF StartTypeOK, GatewayEntries, Written, Fault, NoFault,
       InitializationFailed, Exit, AfterKeys
  <2>2. https' \in BOOLEAN /\ bad' \in BOOLEAN
    BY DEF StartTypeOK, Written, Fault, NoFault, InitializationFailed, Exit,
       AfterKeys
  <2> QED
    BY <2>1, <2>2 DEF StartTypeOK, MemDrawn, WorkKeyOnce, JwtPwdMade,
       WorkKey, HasRoot, RootKey, Decryptable, Written, Fault, NoFault,
       InitializationFailed, Exit, AfterKeys
<1>2. MemDrawn' /\ RootFirst' /\ WorkKeyOnce'
  BY DEF StartTypeOK, MemDrawn, RootFirst, WorkKeyOnce, HasRoot,
     Decryptable, Written, Fault, NoFault, InitializationFailed, Exit,
     AfterKeys
<1>3. CertPwdOnce'
  BY DEF StartTypeOK, CertPwdOnce, MemDrawn, GatewayInOrder, Decryptable,
     Written, Fault, NoFault, InitializationFailed, Exit, AfterKeys
<1>4. JwtPwdMade'
  BY DEF StartTypeOK, JwtPwdMade, MemDrawn, GatewayInOrder, PwdReadable,
     WorkKey, HasRoot, RootKey, Decryptable, Written, Fault, NoFault,
     InitializationFailed, Exit, AfterKeys
<1>5. Secrets'
  BY DEF StartTypeOK, Secrets, RootFirst, WorkKeyOnce, JwtPwdMade, WorkKey,
     HasRoot, RootKey, Decryptable, Written, Fault, NoFault,
     InitializationFailed, Exit, AfterKeys
<1>6. GatewayInOrder'
  BY DEF StartTypeOK, GatewayInOrder, GatewayEntries, Written, Fault,
     NoFault, InitializationFailed, Exit, AfterKeys
<1> QED  BY <1>1, <1>2, <1>3, <1>4, <1>5, <1>6

\* MakeEntry preserves the invariant.
LEMMA MakeEntryKeeps ==
  ASSUME NEW a \in Apps, NEW ak \in Aks, StartInv, MakeEntry
  PROVE  StartInv'
<1> USE DEF StartInv, MakeEntry
<1>1. StartTypeOK'
  <2>1. entry' \in 1 .. (NGateway + 1) /\ faults' \in 0 .. MaxFaults
    BY DEF StartTypeOK, GatewayEntries, NoFault, Fault,
       InitializationFailed, Exit
  <2>2. https' \in BOOLEAN /\ bad' \in BOOLEAN
    BY DEF StartTypeOK, NoFault, Fault, InitializationFailed, Exit
  <2> QED
    BY <2>1, <2>2 DEF StartTypeOK, MemDrawn, WorkKeyOnce, JwtPwdMade,
       WorkKey, HasRoot, RootKey, Decryptable, NoFault, Fault,
       InitializationFailed, Exit
<1>2. MemDrawn' /\ RootFirst' /\ WorkKeyOnce'
  BY DEF StartTypeOK, MemDrawn, RootFirst, WorkKeyOnce, HasRoot,
     Decryptable, NoFault, Fault, InitializationFailed, Exit
<1>3. CertPwdOnce'
  BY DEF StartTypeOK, CertPwdOnce, MemDrawn, GatewayInOrder, Decryptable,
     NoFault, Fault, InitializationFailed, Exit
<1>4. JwtPwdMade'
  BY DEF StartTypeOK, JwtPwdMade, MemDrawn, GatewayInOrder, PwdReadable,
     WorkKey, HasRoot, RootKey, Decryptable, NoFault, Fault,
     InitializationFailed, Exit
<1>5. Secrets'
  BY DEF StartTypeOK, Secrets, RootFirst, WorkKeyOnce, JwtPwdMade, WorkKey,
     HasRoot, RootKey, Decryptable, NoFault, Fault, InitializationFailed,
     Exit
<1>6. GatewayInOrder'
  BY DEF StartTypeOK, GatewayInOrder, GatewayEntries, NoFault, Fault,
     InitializationFailed, Exit
<1> QED  BY <1>1, <1>2, <1>3, <1>4, <1>5, <1>6

\* All entries up to the last one have been made.
LEMMA GatewayReadyKeeps ==
  ASSUME StartInv, GatewayReady
  PROVE  StartInv'
<1> USE DEF StartInv, GatewayReady
<1>1. StartTypeOK'
  BY DEF StartTypeOK, MemDrawn, WorkKeyOnce, JwtPwdMade, WorkKey, HasRoot,
     RootKey, Decryptable
<1>2. MemDrawn' /\ RootFirst' /\ WorkKeyOnce'
  BY DEF StartTypeOK, MemDrawn, RootFirst, WorkKeyOnce, HasRoot, Decryptable
<1>3. CertPwdOnce'
  BY DEF StartTypeOK, CertPwdOnce, MemDrawn, GatewayInOrder, Decryptable
<1>4. JwtPwdMade'
  BY DEF StartTypeOK, JwtPwdMade, MemDrawn, GatewayInOrder, PwdReadable,
     WorkKey, HasRoot, RootKey, Decryptable
<1>5. Secrets'
  BY DEF StartTypeOK, Secrets, RootFirst, WorkKeyOnce, JwtPwdMade, WorkKey,
     HasRoot, RootKey, Decryptable
<1>6. GatewayInOrder'
  <2>1. entry = NGateway + 1
    BY DEF StartTypeOK, GatewayInOrder, GatewayEntries
  <2>2. GatewayEntries \subseteq gw
    BY <2>1 DEF GatewayInOrder, GatewayEntries
  <2>3. gw = GatewayEntries
    BY <2>2 DEF StartTypeOK
  <2> QED  BY <2>3 DEF StartTypeOK, GatewayInOrder
<1> QED  BY <1>1, <1>2, <1>3, <1>4, <1>5, <1>6

\* InitJwtPwd preserves the invariant.
LEMMA InitJwtPwdKeeps ==
  ASSUME StartInv, InitJwtPwd
  PROVE  StartInv'
<1> USE DEF StartInv, InitJwtPwd
<1>1. StartTypeOK'
  <2>1. entry' \in 1 .. (NGateway + 1) /\ faults' \in 0 .. MaxFaults
    BY DEF StartTypeOK, GatewayEntries, Draw, UsedIds, Exit
  <2>2. https' \in BOOLEAN /\ bad' \in BOOLEAN
    BY DEF StartTypeOK, Draw, UsedIds, Exit
  <2> QED
    BY <2>1, <2>2 DEF StartTypeOK, MemDrawn, WorkKeyOnce, JwtPwdMade,
       WorkKey, HasRoot, RootKey, Decryptable, Draw, UsedIds, Exit
<1>2. MemDrawn' /\ RootFirst' /\ WorkKeyOnce'
  BY DEF StartTypeOK, MemDrawn, RootFirst, WorkKeyOnce, HasRoot,
     Decryptable, Draw, UsedIds, Exit
<1>3. CertPwdOnce'
  BY DEF StartTypeOK, CertPwdOnce, MemDrawn, GatewayInOrder, Decryptable,
     Draw, UsedIds, Exit
<1>4. JwtPwdMade'
  BY DEF StartTypeOK, JwtPwdMade, MemDrawn, GatewayInOrder, PwdReadable,
     WorkKey, HasRoot, RootKey, Decryptable, Draw, UsedIds, Exit
<1>5. Secrets'
  BY DEF StartTypeOK, Secrets, RootFirst, WorkKeyOnce, JwtPwdMade, WorkKey,
     HasRoot, RootKey, Decryptable, Draw, UsedIds, Exit
<1>6. GatewayInOrder'
  BY DEF StartTypeOK, GatewayInOrder, GatewayEntries, Draw, UsedIds, Exit
<1> QED  BY <1>1, <1>2, <1>3, <1>4, <1>5, <1>6

\* mepserver gets to the two writes only without a password file.
LEMMA InitCertPwdKeeps ==
  ASSUME StartInv, InitCertPwd
  PROVE  StartInv'
<1> USE DEF StartInv, InitCertPwd
<1>1. StartTypeOK'
  <2>1. entry' \in 1 .. (NGateway + 1) /\ faults' \in 0 .. MaxFaults
    BY DEF StartTypeOK, GatewayEntries, Draw, UsedIds, Exit
  <2>2. https' \in BOOLEAN /\ bad' \in BOOLEAN
    BY DEF StartTypeOK, Draw, UsedIds, Exit
  <2> QED
    BY <2>1, <2>2 DEF StartTypeOK, MemDrawn, WorkKeyOnce, JwtPwdMade,
       WorkKey, HasRoot, RootKey, Decryptable, Draw, UsedIds, Exit
<1>2. MemDrawn' /\ RootFirst' /\ WorkKeyOnce'
  BY DEF StartTypeOK, MemDrawn, RootFirst, WorkKeyOnce, HasRoot,
     Decryptable, Draw, UsedIds, Exit
<1>3. CertPwdOnce'
  BY DEF StartTypeOK, CertPwdOnce, MemDrawn, GatewayInOrder, Decryptable,
     Draw, UsedIds, Exit
<1>4. JwtPwdMade'
  BY DEF StartTypeOK, JwtPwdMade, MemDrawn, GatewayInOrder, PwdReadable,
     WorkKey, HasRoot, RootKey, Decryptable, Draw, UsedIds, Exit
<1>5. Secrets'
  BY DEF StartTypeOK, Secrets, RootFirst, WorkKeyOnce, JwtPwdMade, WorkKey,
     HasRoot, RootKey, Decryptable, Draw, UsedIds, Exit
<1>6. GatewayInOrder'
  BY DEF StartTypeOK, GatewayInOrder, GatewayEntries, Draw, UsedIds, Exit
<1> QED  BY <1>1, <1>2, <1>3, <1>4, <1>5, <1>6

\* WriteJwtPwd preserves the invariant.
LEMMA WriteJwtPwdKeeps ==
  ASSUME StartInv, WriteJwtPwd
  PROVE  StartInv'
<1> USE DEF StartInv, WriteJwtPwd
<1>1. StartTypeOK'
  BY DEF StartTypeOK, MemDrawn, WorkKeyOnce, JwtPwdMade, WorkKey, HasRoot,
     RootKey, Decryptable, Written, Fault, NoFault
<1>2. MemDrawn' /\ RootFirst' /\ WorkKeyOnce'
  BY DEF StartTypeOK, MemDrawn, RootFirst, WorkKeyOnce, HasRoot,
     Decryptable, Written, Fault, NoFault
<1>3. CertPwdOnce'
  BY DEF StartTypeOK, CertPwdOnce, MemDrawn, GatewayInOrder, Decryptable,
     Written, Fault, NoFault
<1>4. JwtPwdMade'
  BY DEF StartTypeOK, JwtPwdMade, MemDrawn, GatewayInOrder, PwdReadable,
     WorkKey, HasRoot, RootKey, Decryptable, Written, Fault, NoFault
<1>5. Secrets'
  BY DEF StartTypeOK, Secrets, RootFirst, WorkKeyOnce, JwtPwdMade, WorkKey,
     HasRoot, RootKey, Decryptable, Written, Fault, NoFault
<1>6. GatewayInOrder'
  BY DEF StartTypeOK, GatewayInOrder, GatewayEntries, Written, Fault,
     NoFault
<1> QED  BY <1>1, <1>2, <1>3, <1>4, <1>5, <1>6

\* mepauth goes on only if both writes succeeded.
LEMMA WriteJwtPwdNonceKeeps ==
  ASSUME StartInv, WriteJwtPwdNonce
  PROVE  StartInv'
<1> USE DEF StartInv, WriteJwtPwdNonce
<1>1. StartTypeOK'
  <2>1. entry' \in 1 .. (NGateway + 1) /\ faults' \in 0 .. MaxFaults
    BY DEF StartTypeOK, GatewayEntries, Written, Fault, NoFault, Exit,
       AfterPwd
  <2>2. https' \in BOOLEAN /\ bad' \in BOOLEAN
    BY DEF StartTypeOK, Written, Fault, NoFault, Exit, AfterPwd
  <2> QED
    BY <2>1, <2>2 DEF StartTypeOK, MemDrawn, WorkKeyOnce, JwtPwdMade,
       WorkKey, HasRoot, RootKey, Decryptable, Written, Fault, NoFault,
       Exit, AfterPwd
<1>2. MemDrawn' /\ RootFirst' /\ WorkKeyOnce'
  BY DEF StartTypeOK, MemDrawn, RootFirst, WorkKeyOnce, HasRoot,
     Decryptable, Written, Fault, NoFault, Exit, AfterPwd
<1>3. CertPwdOnce'
  BY DEF StartTypeOK, CertPwdOnce, MemDrawn, GatewayInOrder, Decryptable,
     Written, Fault, NoFault, Exit, AfterPwd
<1>4. JwtPwdMade'
  BY DEF StartTypeOK, JwtPwdMade, MemDrawn, GatewayInOrder, PwdReadable,
     WorkKey, HasRoot, RootKey, Decryptable, Written, Fault, NoFault, Exit,
     AfterPwd
<1>5. Secrets'
  BY DEF StartTypeOK, Secrets, RootFirst, WorkKeyOnce, JwtPwdMade, WorkKey,
     HasRoot, RootKey, Decryptable, Written, Fault, NoFault, Exit, AfterPwd
<1>6. GatewayInOrder'
  BY DEF StartTypeOK, GatewayInOrder, GatewayEntries, Written, Fault,
     NoFault, Exit, AfterPwd
<1> QED  BY <1>1, <1>2, <1>3, <1>4, <1>5, <1>6

\* The secret key is encrypted with the work key that is stored.
LEMMA ConfigureInitAppKeeps ==
  ASSUME StartInv, ConfigureInitApp
  PROVE  StartInv'
<1> USE DEF StartInv, ConfigureInitApp
<1>1. StartTypeOK'
  <2>1. entry' \in 1 .. (NGateway + 1) /\ faults' \in 0 .. MaxFaults
    BY DEF StartTypeOK, GatewayEntries, SaveAkAndSk, NoFault, Fault, Exit,
       Records
  <2>2. https' \in BOOLEAN /\ bad' \in BOOLEAN
    BY DEF StartTypeOK, SaveAkAndSk, NoFault, Fault, Exit, Records
  <2> QED
    BY <2>1, <2>2 DEF StartTypeOK, MemDrawn, WorkKeyOnce, JwtPwdMade,
       WorkKey, HasRoot, RootKey, Decryptable, SaveAkAndSk, NoFault, Fault,
       Exit, Records
<1>2. MemDrawn' /\ RootFirst' /\ WorkKeyOnce'
  BY DEF StartTypeOK, MemDrawn, RootFirst, WorkKeyOnce, HasRoot,
     Decryptable, SaveAkAndSk, NoFault, Fault, Exit, Records
<1>3. CertPwdOnce'
  BY DEF StartTypeOK, CertPwdOnce, MemDrawn, GatewayInOrder, Decryptable,
     SaveAkAndSk, NoFault, Fault, Exit, Records
<1>4. JwtPwdMade'
  BY DEF StartTypeOK, JwtPwdMade, MemDrawn, GatewayInOrder, PwdReadable,
     WorkKey, HasRoot, RootKey, Decryptable, SaveAkAndSk, NoFault, Fault,
     Exit, Records
<1>5. Secrets'
  BY DEF StartTypeOK, Secrets, RootFirst, WorkKeyOnce, JwtPwdMade, WorkKey,
     HasRoot, RootKey, Decryptable, SaveAkAndSk, NoFault, Fault, Exit,
     Records
<1>6. GatewayInOrder'
  BY DEF StartTypeOK, GatewayInOrder, GatewayEntries, SaveAkAndSk, NoFault,
     Fault, Exit, Records
<1> QED  BY <1>1, <1>2, <1>3, <1>4, <1>5, <1>6

\* PutConf preserves the invariant.
LEMMA PutConfKeeps ==
  ASSUME NEW a \in Apps, NEW ak \in Aks, StartInv, PutConf(a, ak)
  PROVE  StartInv'
<1> USE DEF StartInv, PutConf
<1>1. StartTypeOK'
  BY DEF StartTypeOK, MemDrawn, WorkKeyOnce, JwtPwdMade, WorkKey, HasRoot,
     RootKey, Decryptable, SaveAkAndSk, Records, Serving
<1>2. MemDrawn' /\ RootFirst' /\ WorkKeyOnce'
  BY DEF StartTypeOK, MemDrawn, RootFirst, WorkKeyOnce, HasRoot,
     Decryptable, SaveAkAndSk, Records, Serving
<1>3. CertPwdOnce'
  BY DEF StartTypeOK, CertPwdOnce, MemDrawn, GatewayInOrder, Decryptable,
     SaveAkAndSk, Records, Serving
<1>4. JwtPwdMade'
  BY DEF StartTypeOK, JwtPwdMade, MemDrawn, GatewayInOrder, PwdReadable,
     WorkKey, HasRoot, RootKey, Decryptable, SaveAkAndSk, Records, Serving
<1>5. Secrets'
  BY DEF StartTypeOK, Secrets, RootFirst, WorkKeyOnce, JwtPwdMade, WorkKey,
     HasRoot, RootKey, Decryptable, SaveAkAndSk, Records, Serving
<1>6. GatewayInOrder'
  BY DEF StartTypeOK, GatewayInOrder, GatewayEntries, SaveAkAndSk, Records,
     Serving
<1> QED  BY <1>1, <1>2, <1>3, <1>4, <1>5, <1>6

\* DeleteConf preserves the invariant.
LEMMA DeleteConfKeeps ==
  ASSUME NEW a \in Apps, StartInv, DeleteConf(a)
  PROVE  StartInv'
<1> USE DEF StartInv, DeleteConf
<1>1. StartTypeOK'
  BY DEF StartTypeOK, MemDrawn, WorkKeyOnce, JwtPwdMade, WorkKey, HasRoot,
     RootKey, Decryptable, Serving
<1>2. MemDrawn' /\ RootFirst' /\ WorkKeyOnce'
  BY DEF StartTypeOK, MemDrawn, RootFirst, WorkKeyOnce, HasRoot,
     Decryptable, Serving
<1>3. CertPwdOnce'
  BY DEF StartTypeOK, CertPwdOnce, MemDrawn, GatewayInOrder, Decryptable,
     Serving
<1>4. JwtPwdMade'
  BY DEF StartTypeOK, JwtPwdMade, MemDrawn, GatewayInOrder, PwdReadable,
     WorkKey, HasRoot, RootKey, Decryptable, Serving
<1>5. Secrets'
  BY DEF StartTypeOK, Secrets, RootFirst, WorkKeyOnce, JwtPwdMade, WorkKey,
     HasRoot, RootKey, Decryptable, Serving
<1>6. GatewayInOrder'
  BY DEF StartTypeOK, GatewayInOrder, GatewayEntries, Serving
<1> QED  BY <1>1, <1>2, <1>3, <1>4, <1>5, <1>6

\* Crash preserves the invariant.
LEMMA CrashKeeps ==
  ASSUME StartInv, Crash
  PROVE  StartInv'
<1> USE DEF StartInv, Crash
<1>1. StartTypeOK'
  <2>1. entry' \in 1 .. (NGateway + 1) /\ faults' \in 0 .. MaxFaults
    BY DEF StartTypeOK, GatewayEntries, Fault, Exit
  <2>2. https' \in BOOLEAN /\ bad' \in BOOLEAN
    BY DEF StartTypeOK, Fault, Exit
  <2> QED
    BY <2>1, <2>2 DEF StartTypeOK, MemDrawn, WorkKeyOnce, JwtPwdMade,
       WorkKey, HasRoot, RootKey, Decryptable, Fault, Exit
<1>2. MemDrawn' /\ RootFirst' /\ WorkKeyOnce'
  BY DEF StartTypeOK, MemDrawn, RootFirst, WorkKeyOnce, HasRoot,
     Decryptable, Fault, Exit
<1>3. CertPwdOnce'
  BY DEF StartTypeOK, CertPwdOnce, MemDrawn, GatewayInOrder, Decryptable,
     Fault, Exit
<1>4. JwtPwdMade'
  BY DEF StartTypeOK, JwtPwdMade, MemDrawn, GatewayInOrder, PwdReadable,
     WorkKey, HasRoot, RootKey, Decryptable, Fault, Exit
<1>5. Secrets'
  BY DEF StartTypeOK, Secrets, RootFirst, WorkKeyOnce, JwtPwdMade, WorkKey,
     HasRoot, RootKey, Decryptable, Fault, Exit
<1>6. GatewayInOrder'
  BY DEF StartTypeOK, GatewayInOrder, GatewayEntries, Fault, Exit
<1> QED  BY <1>1, <1>2, <1>3, <1>4, <1>5, <1>6

\* Stop preserves the invariant.
LEMMA StopKeeps ==
  ASSUME StartInv, Stop
  PROVE  StartInv'
<1> USE DEF StartInv, Stop
<1>1. StartTypeOK'
  <2>1. entry' \in 1 .. (NGateway + 1) /\ faults' \in 0 .. MaxFaults
    BY DEF StartTypeOK, GatewayEntries, Exit
  <2>2. https' \in BOOLEAN /\ bad' \in BOOLEAN
    BY DEF StartTypeOK, Exit
  <2> QED
    BY <2>1, <2>2 DEF StartTypeOK, MemDrawn, WorkKeyOnce, JwtPwdMade,
       WorkKey, HasRoot, RootKey, Decryptable, Exit
<1>2. MemDrawn' /\ RootFirst' /\ WorkKeyOnce'
  BY DEF StartTypeOK, MemDrawn, RootFirst, WorkKeyOnce, HasRoot,
     Decryptable, Exit
<1>3. CertPwdOnce'
  BY DEF StartTypeOK, CertPwdOnce, MemDrawn, GatewayInOrder, Decryptable,
     Exit
<1>4. JwtPwdMade'
  BY DEF StartTypeOK, JwtPwdMade, MemDrawn, GatewayInOrder, PwdReadable,
     WorkKey, HasRoot, RootKey, Decryptable, Exit
<1>5. Secrets'
  BY DEF StartTypeOK, Secrets, RootFirst, WorkKeyOnce, JwtPwdMade, WorkKey,
     HasRoot, RootKey, Decryptable, Exit
<1>6. GatewayInOrder'
  BY DEF StartTypeOK, GatewayInOrder, GatewayEntries, Exit
<1> QED  BY <1>1, <1>2, <1>3, <1>4, <1>5, <1>6
----------------------------------------------------------------------------
(* All steps together.                                                     *)

\* Every step of main and of the configuration keeps the invariant.
LEMMA StartNextKeeps ==
  ASSUME StartInv, StartNext
  PROVE  StartInv'
<1>1. CASE StartStep
  BY <1>1, StartKeeps, InitRootKeyKeeps, WriteComponentKeeps, WriteSaltKeeps, InitWorkKeyKeeps,
     WriteWorkKeyKeeps, WriteWorkKeyNonceKeeps, MakeEntryKeeps, GatewayReadyKeeps,
     InitJwtPwdKeeps, InitCertPwdKeeps, WriteJwtPwdKeeps, WriteJwtPwdNonceKeeps,
     ConfigureInitAppKeeps DEF StartStep
<1>2. CASE Conf
  BY <1>2, PutConfKeeps, DeleteConfKeeps DEF Conf
<1> QED  BY <1>1, <1>2, CrashKeeps, StopKeeps DEF StartNext

\* Requests and timers do not touch files, gateway and database.
LEMMA NextIsStartNext ==
  ASSUME Next
  PROVE  StartNext \/ UNCHANGED startVars
BY DEF Next, StartNext, EndAndForget, RequestStep, Load, Clear, Token, Judge, Count, Block,
   Validate, Check, TimerStep, Fire, Expire, StrayExpire

\* The invariant holds of the composed specification.
THEOREM KeyFilesInvariant == Spec => []StartInv
<1>1. Init => StartInv
  BY StartInvInit DEF Init
<1>2. StartInv /\ [Next]_vars => StartInv'
  BY NextIsStartNext, StartNextKeeps, StutterKeeps DEF vars
<1> QED  BY <1>1, <1>2, PTL DEF Spec
----------------------------------------------------------------------------
(* What follows from it.                                                   *)

\* No start, crash or failed write loses the secret key of an application on
\* record (InitRootKeyAndWorkKey, saveAkAndSk).
THEOREM SecretsStayReadable == Spec => []SecretsReadable
<1>1. StartInv => SecretsReadable
  BY DEF StartInv, Secrets, SecretsReadable
<1> QED  BY <1>1, KeyFilesInvariant, PTL

\* With HTTPS mepauth serves only behind a gateway that is fully set up
\* (doInitialization, InitAPIGateway).
THEOREM GatewayBeforeService == Spec => []ServesBehindGateway
<1>1. StartInv => ServesBehindGateway
  BY DEF StartInv, GatewayInOrder, ServesBehindGateway, Serving
<1> QED  BY <1>1, KeyFilesInvariant, PTL

\* While key files are being written nothing can be decrypted; while the
\* certificate password is, it cannot.
LEMMA NothingToLose ==
  ASSUME StartInv, program = "mepserver", at \in WritingKeys \cup WritingPwd
  PROVE  ~PwdReadable
<1> USE DEF StartInv
<1>1. CASE at \in {"comp", "salt"}
  BY <1>1 DEF RootFirst, PwdReadable, WorkKey, Decryptable
<1>2. CASE at \in {"wkey", "wnonce"}
  BY <1>2 DEF StartTypeOK, WorkKeyOnce, PwdReadable, WorkKey, Decryptable
<1>3. CASE at \in WritingPwd
  BY <1>3 DEF CertPwdOnce, PwdReadable, Decryptable
<1> QED  BY <1>1, <1>2, <1>3

\* All other steps leave the files alone.
LEMMA FilesKept ==
  ASSUME StartNext, at \notin WritingKeys \cup WritingPwd
  PROVE  UNCHANGED files
BY DEF StartNext, StartStep, Conf, Start, InitRootKey, WriteComponent, WriteSalt, InitWorkKey,
   WriteWorkKey, WriteWorkKeyNonce, MakeEntry, GatewayReady, InitJwtPwd, InitCertPwd,
   WriteJwtPwd, WriteJwtPwdNonce, ConfigureInitApp, PutConf, DeleteConf, Crash, Stop

\* A certificate password that mepserver can decrypt stays so (main,
\* EncryptAndSaveCertPwd).
THEOREM CertPwdStays == Spec => CertPwdKept
<1>1. StartInv /\ [Next]_vars =>
        [program = "mepserver" => (PwdReadable => PwdReadable')]_startVars
  <2> SUFFICES ASSUME StartInv, StartNext, program = "mepserver", PwdReadable
               PROVE  PwdReadable'
    BY NextIsStartNext DEF vars
  <2>1. UNCHANGED files
    BY NothingToLose, FilesKept
  <2> QED  BY <2>1 DEF PwdReadable, WorkKey, HasRoot, RootKey, Decryptable
<1> QED  BY <1>1, KeyFilesInvariant, PTL DEF Spec, CertPwdKept
----------------------------------------------------------------------------
(* Requests.                                                               *)

\* Requests are served only while mepauth is up, and none has failed.
Pcs == {"idle", "load", "clear", "token", "judge", "count", "block", "validate", "error"}
RequestsServed ==
  /\ req \in [Requests -> [pc : Pcs, ak : Aks]]
  /\ \A r \in Requests : req[r].pc # "idle" => Serving /\ req[r].pc # "error"

\* A step of a request: its record has a secret key that can be decrypted
\* (Secrets), and so can the password of the private key (JwtPwdMade).
LEMMA RequestKeeps ==
  ASSUME StartInv, RequestsServed, NEW r \in Requests,
         RequestStep(r) \/ \E k \in Aks : Check(r, k)
  PROVE  RequestsServed'
<1> USE DEF RequestsServed, Pcs, Serving, startVars, Go
<1>1. CASE \E k \in Aks : Check(r, k)
  BY <1>1 DEF Check
<1>2. CASE Load(r)
  <2>1. \A a \in Apps : db[a] # NoRecord => db[a].key = WorkKey
    BY DEF StartInv, Secrets
  <2> QED  BY <1>2, <2>1 DEF Load
<1>3. CASE Token(r)
  <2>1. PwdReadable
    BY <1>3 DEF Token, StartInv, JwtPwdMade
  <2> QED  BY <1>3, <2>1 DEF Token
<1>4. CASE Clear(r) \/ Judge(r) \/ Count(r) \/ Block(r) \/ Validate(r)
  <2>1. UNCHANGED startVars /\ req[r].pc # "idle"
    BY <1>4 DEF Clear, Judge, Count, Block, Validate
  <2>2. \E pc \in Pcs \ {"error"} : Go(r, pc)
    BY <1>4 DEF Clear, Judge, Count, Block, Validate
  <2> QED  BY <2>1, <2>2
<1> QED  BY <1>1, <1>2, <1>3, <1>4 DEF RequestStep

\* A start or the configuration of a key does not end a request; the end of
\* mepauth ends them all.
LEMMA OthersKeep ==
  ASSUME RequestsServed,
         \/ (StartStep \/ Conf) /\ UNCHANGED tokenVars
         \/ EndAndForget
         \/ \E k \in Aks : TimerStep(k)
  PROVE  RequestsServed'
<1> USE DEF RequestsServed, Pcs, Serving
<1>1. CASE StartStep /\ UNCHANGED tokenVars
  <2>1. at # "up" /\ program' = program
    BY <1>1 DEF StartStep, Start, InitRootKey, WriteComponent, WriteSalt, InitWorkKey,
       WriteWorkKey, WriteWorkKeyNonce, MakeEntry, GatewayReady, InitJwtPwd, InitCertPwd,
       WriteJwtPwd, WriteJwtPwdNonce, ConfigureInitApp
  <2> QED  BY <1>1, <2>1 DEF tokenVars
<1>2. CASE Conf /\ UNCHANGED tokenVars
  BY <1>2 DEF Conf, PutConf, DeleteConf, tokenVars
<1>3. CASE EndAndForget
  BY <1>3 DEF EndAndForget, AllIdle, Idle
<1>4. CASE \E k \in Aks : TimerStep(k)
  BY <1>4 DEF TimerStep, Fire, Expire, StrayExpire, startVars
<1> QED  BY <1>1, <1>2, <1>3, <1>4

\* No request for a recorded key is answered with an internal error
\* (TokenController.Post, getAppInsIdSk, generateJwtToken).
THEOREM NoRequestFails == Spec => []NoInternalError
<1>1. Init => RequestsServed
  BY DEF Init, RequestsServed, Pcs, AllIdle, Idle
<1>2. StartInv /\ RequestsServed /\ [Next]_vars => RequestsServed'
  <2>1. ASSUME RequestsServed, UNCHANGED vars
        PROVE  RequestsServed'
    BY <2>1 DEF RequestsServed, Serving, vars, tokenVars, startVars
  <2> QED  BY <2>1, RequestKeeps, OthersKeep DEF Next
<1>3. RequestsServed => NoInternalError
  BY DEF RequestsServed, NoInternalError
<1> QED  BY <1>1, <1>2, <1>3, KeyFilesInvariant, PTL DEF Spec
=============================================================================
