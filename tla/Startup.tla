------------------------------- MODULE Startup -------------------------------
(***************************************************************************)
(* How mepauth and mepserver start, and what they keep: the six files that *)
(* protect their secrets (util.go and meputil.go have the same code for    *)
(* them), and, for mepauth, the entries it makes on the API gateway        *)
(* (apigw.go) and the records of the applications' keys in the database    *)
(* (conf.go).  A program goes through all of them on every start; a crash, *)
(* a write that fails or a gateway that does not answer ends a start       *)
(* anywhere.  A behaviour is about one program, with files of its own.     *)
(*                                                                         *)
(* A cipher text is a record of what it was made with: the key, or what    *)
(* the key is derived from, and the nonce.  Random values are ids that are *)
(* not in use.                                                             *)
(***************************************************************************)
EXTENDS Naturals, FiniteSets

CONSTANTS
  Apps, InitApp,  \* the applications; the one main.go configures
  Aks, InitAk,    \* access keys
  Ids,            \* random values
  NGateway,       \* how many entries InitAPIGateway makes
  StartFaults,    \* the failures that may happen (StartFaultKinds)
  MaxFaults,      \* bound: how many of them
  Missing, Torn,  \* a file that is not there; one whose write broke off
  NoKey, NoRecord

StartFaultKinds == {"write",    \* a file cannot be written
                    "torn",     \* ... exists afterwards, but is cut off
                    "gateway",  \* a request to the gateway fails
                    "db",       \* the database cannot be reached
                    "crash"}

GatewayEntries == 1 .. NGateway
Records == [ak : Aks, key : Ids]

ASSUME StartAssumption ==
  /\ InitApp \in Apps /\ InitAk \in Aks
  /\ NGateway \in Nat /\ MaxFaults \in Nat
  /\ StartFaults \subseteq StartFaultKinds
  /\ {Missing, Torn, NoKey} \cap Ids = {} /\ Missing # Torn
  /\ NoRecord \notin Records
  /\ {Missing, Torn} \cap [key : Ids, nonce : Ids] = {}

VARIABLES
  program,  \* "mepauth" or "mepserver"
  https,    \* EnableHTTPS of mepauth, set by start.sh
  comp, salt,      \* c_properties, s_properties: the parts of the root key
  wkey, wnonce,    \* w_properties, wn_properties: the encrypted work key
  pwd, pnonce,     \* the encrypted password: of the JWT private key (mepauth),
                   \* of the certificate (mepserver)
  gw,       \* entries of the API gateway
  db,       \* AuthInfoRecord by application
  at,       \* where main is
  mem,      \* the random value that is being written
  bad,      \* the first of two writes has failed
  entry,    \* the gateway entry to make next
  faults    \* how many failures there have been

files == <<comp, salt, wkey, wnonce, pwd, pnonce>>
settings == <<program, https>>
startVars == <<settings, files, gw, db, at, mem, bad, entry, faults>>

\* The root key comes out of both files; a component that is cut short makes
\* genRootKey panic, a salt may be of any length.
HasRoot == comp \notin {Missing, Torn} /\ salt # Missing
RootKey == <<comp, salt>>

\* decryptKey: both files are there, and they were made together.
Decryptable(cipher, nonce) == cipher \notin {Missing, Torn} /\ cipher.nonce = nonce

\* GetWorkKey: the key if it can be decrypted.
WorkKey ==
  IF HasRoot /\ Decryptable(wkey, wnonce) /\ wkey.by = RootKey
  THEN wkey.key ELSE NoKey

\* getJwtPrivateKeyPwd; GetCertPwd
PwdReadable ==
  WorkKey # NoKey /\ Decryptable(pwd, pnonce) /\ pwd.key = WorkKey

UsedIds ==
  {comp, salt, wnonce, pnonce, mem}
  \cup (IF wkey \in {Missing, Torn} THEN {} ELSE {wkey.key, wkey.nonce, wkey.by[1], wkey.by[2]})
  \cup (IF pwd \in {Missing, Torn} THEN {} ELSE {pwd.key, pwd.nonce})
  \cup {db[a].key : a \in {b \in Apps : db[b] # NoRecord}}
Fresh == CHOOSE n \in Ids : n \notin UsedIds

\* rand.Read: any value that is not in use will do, as long as Ids has one.
Draw == mem' = Fresh /\ mem' \in Ids \ UsedIds

Fault(k) == k \in StartFaults /\ faults < MaxFaults /\ faults' = faults + 1
NoFault == UNCHANGED faults

\* The process ends, or main returns.
Exit == at' = "down" /\ mem' = NoKey /\ bad' = FALSE /\ entry' = 1

\* Mutant: main goes on with HTTPS too.
InitializationIgnored == at' = "jwt" /\ mem' = NoKey /\ bad' = FALSE /\ entry' = 1

\* doInitialization returned false; mepauth goes on only without HTTPS.  The
\* main of mepserver returns.
InitializationFailed ==
  IF program = "mepserver" \/ https THEN Exit
  ELSE at' = "jwt" /\ mem' = NoKey /\ bad' = FALSE /\ entry' = 1

\* ioutil.WriteFile truncates the file before it writes.
Written(old, new, result, ok) ==
  \/ ok /\ result = new /\ NoFault
  \/ ~ok /\ Fault("write") /\ result = old
  \/ ~ok /\ Fault("torn") /\ result = Torn
----------------------------------------------------------------------------
(* Starting.                                                               *)

\* The database of mepauth is registered and its table made, unless it is there.
InitDatabase(ok) == IF ok THEN NoFault ELSE program = "mepauth" /\ Fault("db")

\* main is run again whenever it has ended.  InitDb exits without a database.
Start ==
  /\ at = "down"
  /\ \E ok \in BOOLEAN : InitDatabase(ok) /\ at' = IF ok THEN "root" ELSE "down"
  /\ UNCHANGED <<settings, files, gw, db, mem, bad, entry>>

\* InitRootKeyAndWorkKey: both files are made anew if one is missing.
InitRootKey ==
  /\ at = "root"
  /\ IF comp # Missing /\ salt # Missing THEN at' = "work" /\ UNCHANGED mem
     ELSE at' = "comp" /\ Draw
  /\ UNCHANGED <<settings, files, gw, db, bad, entry, faults>>

WriteComponent ==
  /\ at = "comp"
  /\ \E ok \in BOOLEAN : Written(comp, mem, comp', ok) /\ bad' = ~ok
  /\ at' = "salt"
  /\ UNCHANGED <<settings, salt, wkey, wnonce, pwd, pnonce, gw, db, mem, entry>>

\* The salt is written even if the component was not.
WriteSalt ==
  /\ at = "salt"
  /\ \E ok \in BOOLEAN :
       /\ Written(salt, mem, salt', ok)
       /\ IF ok /\ ~bad THEN at' = "work" /\ mem' = NoKey /\ UNCHANGED <<bad, entry>>
                        ELSE InitializationFailed
  /\ UNCHANGED <<settings, comp, wkey, wnonce, pwd, pnonce, gw, db>>

\* What comes after the key files.
AfterKeys == IF program = "mepserver" THEN "cert" ELSE "gateway"

\* Mutant: mepauth makes a work key on every start.
InitWorkKeyAlways ==
  /\ at = "work"
  /\ IF program = "mepserver" /\ wkey # Missing /\ wnonce # Missing
     THEN at' = AfterKeys /\ UNCHANGED <<mem, bad, entry>>
     ELSE IF HasRoot THEN at' = "wkey" /\ Draw /\ UNCHANGED <<bad, entry>>
     ELSE Exit
  /\ UNCHANGED <<settings, files, gw, db, faults>>

\* ... likewise for the encrypted work key and its nonce.
InitWorkKey ==
  /\ at = "work"
  /\ IF wkey # Missing /\ wnonce # Missing THEN at' = AfterKeys /\ UNCHANGED <<mem, bad, entry>>
     ELSE IF HasRoot THEN at' = "wkey" /\ Draw /\ UNCHANGED <<bad, entry>>
     ELSE Exit
  /\ UNCHANGED <<settings, files, gw, db, faults>>

WriteWorkKey ==
  /\ at = "wkey"
  /\ \E ok \in BOOLEAN :
       Written(wkey, [key |-> mem, by |-> RootKey, nonce |-> mem], wkey', ok) /\ bad' = ~ok
  /\ at' = "wnonce"
  /\ UNCHANGED <<settings, comp, salt, wnonce, pwd, pnonce, gw, db, mem, entry>>

WriteWorkKeyNonce ==
  /\ at = "wnonce"
  /\ \E ok \in BOOLEAN :
       /\ Written(wnonce, mem, wnonce', ok)
       /\ IF ok /\ ~bad THEN at' = AfterKeys /\ mem' = NoKey /\ UNCHANGED <<bad, entry>>
                        ELSE InitializationFailed
  /\ UNCHANGED <<settings, comp, salt, wkey, pwd, pnonce, gw, db>>

\* Mutant: an entry that is there already is an error.
MakeEntryConflict ==
  /\ at = "gateway" /\ entry \in GatewayEntries
  /\ \/ /\ entry \notin gw /\ gw' = gw \cup {entry} /\ entry' = entry + 1
        /\ NoFault /\ UNCHANGED <<at, mem, bad>>
     \/ entry \in gw /\ InitializationFailed /\ UNCHANGED <<gw, faults>>
  /\ UNCHANGED <<settings, files, db>>

\* InitAPIGateway makes its entries one after the other: the consumer and its
\* key, the service, route and plugins of mepserver, those of mepauth, the log
\* plugin.  The first error ends it; an entry that is there already is none.
MakeEntry ==
  /\ at = "gateway" /\ entry \in GatewayEntries
  /\ \/ gw' = gw \cup {entry} /\ entry' = entry + 1 /\ NoFault /\ UNCHANGED <<at, mem, bad>>
     \/ Fault("gateway") /\ InitializationFailed /\ gw' \in {gw, gw \cup {entry}}
  /\ UNCHANGED <<settings, files, db>>

GatewayReady ==
  /\ at = "gateway" /\ entry \notin GatewayEntries
  /\ at' = "jwt" /\ entry' = 1
  /\ UNCHANGED <<settings, files, gw, db, mem, bad, faults>>

\* EncryptAndSaveJwtPwd: made anew on every start, with the stored work key.
InitJwtPwd ==
  /\ at = "jwt"
  /\ IF WorkKey = NoKey THEN Exit
     ELSE at' = "pwd" /\ Draw /\ UNCHANGED <<bad, entry>>
  /\ UNCHANGED <<settings, files, gw, db, faults>>

\* Mutant: the certificate's password is encrypted on every start, like the
\* other one.
InitCertPwdAlways ==
  /\ at = "cert"
  /\ IF WorkKey = NoKey THEN Exit
     ELSE at' = "pwd" /\ Draw /\ UNCHANGED <<bad, entry>>
  /\ UNCHANGED <<settings, files, gw, db, faults>>

\* main of mepserver, encryptCertPwd: made only if the first file is not there.
InitCertPwd ==
  /\ at = "cert"
  /\ \/ pwd # Missing /\ at' = "up" /\ UNCHANGED <<mem, bad, entry>>
     \/ pwd = Missing /\ WorkKey = NoKey /\ Exit
     \/ pwd = Missing /\ WorkKey # NoKey /\ at' = "pwd" /\ Draw /\ UNCHANGED <<bad, entry>>
  /\ UNCHANGED <<settings, files, gw, db, faults>>

\* The end of EncryptAndSaveJwtPwd and of EncryptAndSaveCertPwd.
WriteJwtPwd ==
  /\ at = "pwd"
  /\ \E ok \in BOOLEAN :
       Written(pwd, [key |-> WorkKey, nonce |-> mem], pwd', ok) /\ bad' = ~ok
  /\ at' = "pnonce"
  /\ UNCHANGED <<settings, comp, salt, wkey, wnonce, pnonce, gw, db, mem, entry>>

\* Mutant: nobody asks whether the two writes went well.
WriteJwtPwdNonceUnchecked ==
  /\ at = "pnonce"
  /\ \E ok \in BOOLEAN : Written(pnonce, mem, pnonce', ok)
  /\ at' = "initapp" /\ mem' = NoKey /\ bad' = FALSE
  /\ UNCHANGED <<settings, comp, salt, wkey, wnonce, pwd, gw, db, entry>>

\* mepserver serves then.
AfterPwd == IF program = "mepserver" THEN "up" ELSE "initapp"

WriteJwtPwdNonce ==
  /\ at = "pnonce"
  /\ \E ok \in BOOLEAN :
       /\ Written(pnonce, mem, pnonce', ok)
       /\ IF ok /\ ~bad THEN at' = AfterPwd /\ mem' = NoKey /\ UNCHANGED <<bad, entry>>
                        ELSE Exit
  /\ UNCHANGED <<settings, comp, salt, wkey, wnonce, pwd, gw, db>>

\* saveAkAndSk: the secret key is encrypted with the work key, and the record
\* of the application is replaced.
SaveAkAndSk(a, ak) == db' = [db EXCEPT ![a] = [ak |-> ak, key |-> WorkKey]]

ConfigureInitApp ==
  /\ at = "initapp"
  /\ \/ SaveAkAndSk(InitApp, InitAk) /\ at' = "up" /\ NoFault /\ UNCHANGED <<mem, bad, entry>>
     \/ Fault("db") /\ Exit /\ UNCHANGED db
  /\ UNCHANGED <<settings, files, gw>>

StartStep == \/ Start \/ InitRootKey \/ WriteComponent \/ WriteSalt
             \/ InitWorkKey \/ WriteWorkKey \/ WriteWorkKeyNonce
             \/ MakeEntry \/ GatewayReady
             \/ InitJwtPwd \/ InitCertPwd \/ WriteJwtPwd \/ WriteJwtPwdNonce \/ ConfigureInitApp
----------------------------------------------------------------------------
(* Serving the configuration of keys.                                      *)

Serving == at = "up" /\ program = "mepauth"

\* ConfController.Put; without a work key it answers with an error.
PutConf(a, ak) ==
  /\ Serving /\ WorkKey # NoKey
  /\ SaveAkAndSk(a, ak)
  /\ UNCHANGED <<settings, files, gw, at, mem, bad, entry, faults>>

\* ConfController.Delete
DeleteConf(a) ==
  /\ Serving
  /\ db' = [db EXCEPT ![a] = NoRecord]
  /\ UNCHANGED <<settings, files, gw, at, mem, bad, entry, faults>>

Crash ==
  /\ at # "down"
  /\ Fault("crash")
  /\ Exit
  /\ UNCHANGED <<settings, files, gw, db>>

\* A program that serves is stopped from outside: beego.Run, server.Run and with
\* them main return.
Stop ==
  /\ at = "up"
  /\ Exit
  /\ UNCHANGED <<settings, files, gw, db, faults>>

StartInit ==
  /\ \/ program = "mepauth" /\ https \in BOOLEAN
     \/ program = "mepserver" /\ https = FALSE
  /\ comp = Missing /\ salt = Missing /\ wkey = Missing /\ wnonce = Missing
  /\ pwd = Missing /\ pnonce = Missing
  /\ gw = {} /\ db = [a \in Apps |-> NoRecord]
  /\ at = "down" /\ mem = NoKey /\ bad = FALSE /\ entry = 1 /\ faults = 0

Conf == \E a \in Apps : DeleteConf(a) \/ \E ak \in Aks : PutConf(a, ak)

StartNext == StartStep \/ Conf \/ Crash \/ Stop

StartSpec == StartInit /\ [][StartNext]_startVars
----------------------------------------------------------------------------
(* Properties.                                                             *)

\* The files, the database and the control state keep their types.
StartTypeOK ==
  /\ program \in {"mepauth", "mepserver"} /\ https \in BOOLEAN /\ bad \in BOOLEAN
  /\ {comp, salt, wnonce, pnonce} \subseteq Ids \cup {Missing, Torn}
  /\ wkey \in [key : Ids, by : Ids \X (Ids \cup {Torn}), nonce : Ids] \cup {Missing, Torn}
  /\ pwd \in [key : Ids, nonce : Ids] \cup {Missing, Torn}
  /\ gw \subseteq GatewayEntries
  /\ db \in [Apps -> Records \cup {NoRecord}]
  /\ at \in {"down", "root", "comp", "salt", "work", "wkey", "wnonce", "gateway",
             "cert", "jwt", "pwd", "pnonce", "initapp", "up"}
  /\ mem \in Ids \cup {NoKey}
  /\ entry \in 1 .. (NGateway + 1)
  /\ faults \in 0 .. MaxFaults

\* No start, crash or failed write ever loses a secret: the secret key of
\* every application that is on record can be decrypted with the work key the
\* files give, even while mepauth is down or half started
\* (InitRootKeyAndWorkKey makes files anew only as long as nothing has been
\* encrypted with them).
SecretsReadable ==
  \A a \in Apps : db[a] # NoRecord => db[a].key = WorkKey

\* With HTTPS mepauth serves only behind a gateway that is fully set up, its
\* own route and plugins included (main.go returns when doInitialization does
\* not succeed).
ServesBehindGateway == Serving /\ https => gw = GatewayEntries

\* A certificate password that mepserver can decrypt stays so, whatever later
\* starts do and wherever they end (main asks for the file before it encrypts
\* it anew, in two writes).  The other way round it is the same: a password that
\* was not written completely stays like that.
CertPwdKept ==
  [][program = "mepserver" => (PwdReadable => PwdReadable')]_startVars

\* Files that no start repairs: they exist, so they are not made anew, but the
\* component is cut off or the work key cannot be decrypted with its nonce.
Unusable ==
  \/ comp = Torn /\ salt # Missing
  \/ wkey # Missing /\ wnonce # Missing /\ WorkKey = NoKey

\* Whatever went wrong, the program gets up again once failures stop, unless
\* that left key files no start repairs (main is run again; every step can be
\* repeated).
GetsUp == []<>(at = "up" \/ Unusable)
=============================================================================
