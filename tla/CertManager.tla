---------------------------- MODULE CertManager ----------------------------
(***************************************************************************)
(* The TLS key-pair manager of src/internal/proxy/certmgr.go: the load at  *)
(* start-up (NewServer), the watcher goroutine (Watch, checkAndReload,     *)
(* Load, loadAtomicPair) and the handshakes that call Get, against an      *)
(* operator who replaces the two files one after the other while the       *)
(* manager reads them.  Every file-system call is an action of its own.    *)
(*                                                                         *)
(* A generation is one issue of certificate and key; KeyOf says which      *)
(* private key it uses, so a renewal that keeps the key is included.  Every*)
(* write gives its file a modification time no file had before.            *)
(***************************************************************************)
EXTENDS Integers

CONSTANTS
    MaxGen,                  \* bound on the number of rotations
    KeyOf,                   \* generation -> private key
    loadAtomicMaxAttempts

Gens == 0..MaxGen
NoGen == -1

ASSUME CertAssumption ==
    /\ MaxGen \in Nat
    /\ DOMAIN KeyOf = Gens
    /\ loadAtomicMaxAttempts \in Nat \ {0}

(* What a file holds: a generation's PEM, a torn PEM, or nothing *)
Content == [kind : {"pem", "partial", "missing"}, gen : Gens]
PEM(n) == [kind |-> "pem", gen |-> n]

VARIABLES
    certFile, keyFile,        \* contents of the two files
    certMod, keyMod,          \* their modification times
    clock,                    \* the last modification time given out
    rotating,                 \* generation being written, or NoGen
    pc,                       \* where the manager is
    booted,                   \* NewServer's Load has succeeded
    cert,                     \* the atomic pointer: generations of its two parts
    lastCertMod, lastKeyMod,  \* modification times of the last good load
    certStat0, keyStat0, certStat1, keyStat1, certBytes, keyBytes, attempt

disk == <<certFile, keyFile, certMod, keyMod, clock, rotating>>
served == <<cert, lastCertMod, lastKeyMod>>
locals == <<certStat0, keyStat0, certStat1, keyStat1, certBytes, keyBytes, attempt>>
certVars == <<disk, served, locals, pc, booted>>

Locations ==
    {"idle", "checkCert", "checkKey", "stat0Cert", "stat0Key", "readCert",
     "readKey", "stat1Cert", "stat1Key", "parse", "gaveUp", "stopped"}

NoCert == [certGen |-> NoGen, keyGen |-> NoGen]

CertInit ==
    /\ certFile = PEM(0) /\ keyFile = PEM(0)
    /\ certMod = 1 /\ keyMod = 2 /\ clock = 2
    /\ rotating = NoGen
    /\ pc = "stat0Cert" /\ booted = FALSE
    /\ cert = NoCert /\ lastCertMod = 0 /\ lastKeyMod = 0
    /\ certStat0 = 0 /\ keyStat0 = 0 /\ certStat1 = 0 /\ keyStat1 = 0
    /\ certBytes = PEM(0) /\ keyBytes = PEM(0)
    /\ attempt = 0

-----------------------------------------------------------------------------
(* The operator.  A rotation writes the next generation to one file and then
   to the other; a file may be seen truncated or missing on the way. *)

Latest == IF certFile.gen > keyFile.gen THEN certFile.gen ELSE keyFile.gen

Settled == rotating = NoGen

BeginRotation ==
    /\ Settled
    /\ Latest < MaxGen
    /\ rotating' = Latest + 1
    /\ UNCHANGED <<certFile, keyFile, certMod, keyMod, clock, served, locals, pc, booted>>

(* The writes of one file: to an intermediate state once, then to the new
   generation; the rotation is over when both files hold it. *)
Writes(file, n) ==
    {PEM(n)} \cup
        IF file.kind = "pem" THEN {[file EXCEPT !.kind = "partial"],
                                   [file EXCEPT !.kind = "missing"]}
        ELSE {}

WriteCert ==
    /\ ~ Settled
    /\ certFile # PEM(rotating)
    /\ certFile' \in Writes(certFile, rotating)
    /\ clock' = clock + 1
    /\ certMod' = clock'
    /\ rotating' = IF certFile' = PEM(rotating) /\ keyFile = PEM(rotating)
                   THEN NoGen ELSE rotating
    /\ UNCHANGED <<keyFile, keyMod, served, locals, pc, booted>>

WriteKey ==
    /\ ~ Settled
    /\ keyFile # PEM(rotating)
    /\ keyFile' \in Writes(keyFile, rotating)
    /\ clock' = clock + 1
    /\ keyMod' = clock'
    /\ rotating' = IF keyFile' = PEM(rotating) /\ certFile = PEM(rotating)
                   THEN NoGen ELSE rotating
    /\ UNCHANGED <<certFile, certMod, served, locals, pc, booted>>

-----------------------------------------------------------------------------
(* The manager *)

(* Load failed: at start-up NewServer returns the error and the process
   ends; in the watcher the error is logged and the next tick tries again. *)
Fail == pc' = IF booted THEN "idle" ELSE "stopped"

(* One os.Stat or os.ReadFile of a file: the error return when it is
   missing, else the value is kept and the next call follows. *)
Syscall(here, next, file, Keep) ==
    /\ pc = here
    /\ IF file.kind = "missing" THEN Fail /\ UNCHANGED locals
       ELSE pc' = next /\ Keep
    /\ UNCHANGED <<disk, served, booted>>

Poll ==
    /\ pc = "idle"
    /\ pc' = "checkCert"
    /\ UNCHANGED <<disk, served, locals, booted>>

StatCert == Syscall("checkCert", "checkKey", certFile,
    certStat0' = certMod
      /\ UNCHANGED <<keyStat0, certStat1, keyStat1, certBytes, keyBytes, attempt>>)

(* checkAndReload's second stat and its comparison with the last good load *)
CheckAndReload ==
    /\ pc = "checkKey"
    /\ IF keyFile.kind = "missing" THEN Fail /\ UNCHANGED locals
       ELSE IF certStat0 = lastCertMod /\ keyMod = lastKeyMod
            THEN pc' = "idle" /\ UNCHANGED locals
            ELSE /\ pc' = "stat0Cert" /\ attempt' = 0
                 /\ UNCHANGED <<certStat0, keyStat0, certStat1, keyStat1,
                                certBytes, keyBytes>>
    /\ UNCHANGED <<disk, served, booted>>

Stat0Cert == Syscall("stat0Cert", "stat0Key", certFile,
    certStat0' = certMod
      /\ UNCHANGED <<keyStat0, certStat1, keyStat1, certBytes, keyBytes, attempt>>)

Stat0Key == Syscall("stat0Key", "readCert", keyFile,
    keyStat0' = keyMod
      /\ UNCHANGED <<certStat0, certStat1, keyStat1, certBytes, keyBytes, attempt>>)

ReadCert == Syscall("readCert", "readKey", certFile,
    certBytes' = certFile
      /\ UNCHANGED <<certStat0, keyStat0, certStat1, keyStat1, keyBytes, attempt>>)

ReadKey == Syscall("readKey", "stat1Cert", keyFile,
    keyBytes' = keyFile
      /\ UNCHANGED <<certStat0, keyStat0, certStat1, keyStat1, certBytes, attempt>>)

Stat1Cert == Syscall("stat1Cert", "stat1Key", certFile,
    certStat1' = certMod
      /\ UNCHANGED <<certStat0, keyStat0, keyStat1, certBytes, keyBytes, attempt>>)

Stat1Key == Syscall("stat1Key", "parse", keyFile,
    keyStat1' = keyMod
      /\ UNCHANGED <<certStat0, keyStat0, certStat1, certBytes, keyBytes, attempt>>)

(* Breaks UnchangedMeansCurrent: only the certificate is compared. *)
TornRead_CertOnly == certStat0 # certStat1

(* Breaks CatchesUp: the second pair of stats only records the baseline. *)
TornRead_Never == FALSE

(* A modification time moved between the two stats *)
TornRead == certStat0 # certStat1 \/ keyStat0 # keyStat1

Parsable == certBytes.kind = "pem" /\ keyBytes.kind = "pem"

(* Breaks ServesAnIssuedPair: the parts are installed as they were read. *)
KeysMatch_Unchecked == TRUE

(* tls.X509KeyPair's check of the public against the private key *)
KeysMatch == KeyOf[certBytes.gen] = KeyOf[keyBytes.gen]

Retry ==
    /\ pc = "parse"
    /\ TornRead \/ (Parsable /\ ~ KeysMatch)
    /\ attempt' = attempt + 1
    /\ pc' = IF attempt + 1 < loadAtomicMaxAttempts THEN "stat0Cert" ELSE "gaveUp"
    /\ UNCHANGED <<disk, served, booted, certStat0, keyStat0, certStat1, keyStat1,
                   certBytes, keyBytes>>

ParseError ==
    /\ pc = "parse"
    /\ ~ TornRead /\ ~ Parsable
    /\ Fail
    /\ UNCHANGED <<disk, served, locals, booted>>

(* All attempts used up: loadAtomicPair's last return *)
GiveUp ==
    /\ pc = "gaveUp"
    /\ Fail
    /\ UNCHANGED <<disk, served, locals, booted>>

(* Load's three stores.  Only the watcher reads the modification times and
   only cert is read by handshakes, so they are one step. *)
Install ==
    /\ pc = "parse"
    /\ ~ TornRead /\ Parsable /\ KeysMatch
    /\ cert' = [certGen |-> certBytes.gen, keyGen |-> keyBytes.gen]
    /\ lastCertMod' = certStat1 /\ lastKeyMod' = keyStat1
    /\ booted' = TRUE
    /\ pc' = "idle"
    /\ UNCHANGED <<disk, locals>>

(* ctx is cancelled while Watch waits in its select *)
Stop ==
    /\ pc = "idle"
    /\ pc' = "stopped"
    /\ UNCHANGED <<disk, served, locals, booted>>

Manager ==
    \/ Poll \/ StatCert \/ CheckAndReload
    \/ Stat0Cert \/ Stat0Key \/ ReadCert \/ ReadKey \/ Stat1Cert \/ Stat1Key
    \/ Retry \/ ParseError \/ GiveUp \/ Install

Operator == BeginRotation \/ WriteCert \/ WriteKey

CertNext == Manager \/ Operator \/ Stop

CertSpec == CertInit /\ [][CertNext]_certVars

(* The watcher's ticker keeps firing and its system calls return.  Nothing is
   assumed of the operator: a rotation may stay half done for ever. *)
FairSpec == CertSpec /\ WF_certVars(Manager)

-----------------------------------------------------------------------------
(* Type invariant *)
TypeOK ==
    /\ certFile \in Content /\ keyFile \in Content
    /\ clock \in Nat /\ certMod \in 1..clock /\ keyMod \in 1..clock
    /\ rotating \in Gens \cup {NoGen}
    /\ pc \in Locations /\ booted \in BOOLEAN
    /\ cert \in [certGen : Gens \cup {NoGen}, keyGen : Gens \cup {NoGen}]
    /\ lastCertMod \in 0..clock /\ lastKeyMod \in 0..clock
    /\ certStat0 \in 0..clock /\ keyStat0 \in 0..clock
    /\ certStat1 \in 0..clock /\ keyStat1 \in 0..clock
    /\ certBytes \in Content /\ keyBytes \in Content
    /\ attempt \in 0..loadAtomicMaxAttempts

(* A handshake after start-up is given a certificate together with its own
   private key: rotations that land between any two of the manager's system
   calls never put a spliced or torn pair behind Get (loadAtomicPair). *)
ServesAnIssuedPair ==
    booted => /\ cert.certGen \in Gens /\ cert.keyGen \in Gens
              /\ KeyOf[cert.certGen] = KeyOf[cert.keyGen]

(* When both files still have the modification times of the last good load,
   what is served is what they hold: checkAndReload's "nothing changed" is
   never a missed rotation, wherever the rotation fell between the stats and
   the reads of the load that recorded those times (checkAndReload, Load). *)
UnchangedMeansCurrent ==
    booted =>
        /\ certMod = lastCertMod => certFile = PEM(cert.certGen)
        /\ keyMod = lastKeyMod => keyFile = PEM(cert.keyGen)

Current == cert = [certGen |-> certFile.gen, keyGen |-> keyFile.gen]

(* Once the operator leaves a complete new pair on disk, a running watcher
   comes to serve it: no load that failed, gave up or was torn in between
   leaves it on an old certificate (Watch, checkAndReload). *)
CatchesUp ==
    <>[](Settled /\ booted /\ pc # "stopped") => <>[]Current

(* The comment on loadAtomicMaxAttempts says that the attempts cover a writer
   that rewrites both files in two system calls.  They follow each other at
   once, so a writer that pauses between its two writes outlasts them. *)
AttemptsCoverRotation == pc # "gaveUp"
=============================================================================
