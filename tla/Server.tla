------------------------------- MODULE Server -------------------------------
(***************************************************************************)
(* The life of the server process (serve.go, app.go) and the key files it  *)
(* and its clients live on: commands that write a pair of files one after  *)
(* the other, a start that reads the certificate for the loopback client   *)
(* of its web pages and reads it again to listen, signals, calls, and a    *)
(* shutdown that gives them some time.  Any of the processes may be killed.*)
(*                                                                         *)
(* A file holds the pair it was written for.  Opening it for writing       *)
(* empties it.  Of the libraries (external) it is used that a certificate  *)
(* and a key of different pairs do not load, that a client only talks to a *)
(* server with the certificate it trusts, that Shutdown waits for calls,   *)
(* and that GracefulStop ends what is left of them: by itself if it can    *)
(* tell them to finish, with the process if it cannot.                     *)
(***************************************************************************)
EXTENDS Integers, FiniteSets

CONSTANTS
  Runs,           \* runs of generate-certs and generate-keys...
  Plans,          \* ... and which of them generates what
  Calls,          \* calls of clients
  Missing, Empty, \* a file that does not exist, one with nothing in it
  MaxStarts, MaxKills

\* server.key and server.crt; key and key.pub of a user.
Places == {"tls", "identity"}
Halves == {"private", "public"}

Content == Runs \cup {Missing, Empty}

ASSUME ContentAssumption == Missing \notin Runs /\ Empty \notin Runs /\ Missing # Empty
ASSUME PlansAssumption == Plans \subseteq [Runs -> Places]
ASSUME BoundsAssumption == MaxStarts \in Nat /\ MaxKills \in Nat

VARIABLES
  files,      \* files[place][half]: whose pair a file holds
  run,        \* run[r]: how far a generating command is, and where
  together,   \* places where two of these commands ran at a time
  first,      \* the first command that said its pair is a user's identity
  pc,         \* how far the server is
  trusted,    \* the certificate its loopback client trusts
  served,     \* the certificate it serves
  disturbed,  \* whether the files changed while it started
  expired,    \* whether a shutdown has used its five seconds up
  call,       \* call[c]: how far a call is
  starts,
  kills       \* ends that nobody in the program decided on

filesVars == <<files, run, together, first>>
serverVars == <<pc, trusted, served, disturbed, expired, call, starts>>
vars == <<filesVars, serverVars, kills>>

Steps == {"stat_private", "stat_public", "open_private", "write_private", "open_public", "write_public"}
Running == {r \in Runs : run[r].at \in Steps}
Starting == {"boot", "wired", "listening", "paired"}

TypeOK ==
  /\ files \in [Places -> [Halves -> Content]]
  /\ run \in [Runs -> [at: Steps \cup {"new", "done", "refused", "killed"}, place: Places]]
  /\ together \subseteq Places
  /\ first \in Runs \cup {Missing}
  /\ pc \in Starting \cup {"off", "serving", "draining", "stopping"}
  /\ trusted \in Runs \cup {Missing} /\ served \in Runs \cup {Missing}
  /\ disturbed \in BOOLEAN /\ expired \in BOOLEAN
  /\ call \in [Calls -> {"none", "page", "rpc", "answered", "failed", "cut"}]
  /\ starts \in 0..MaxStarts /\ kills \in 0..MaxKills

NoFiles == [p \in Places |-> [h \in Halves |-> Missing]]

Init ==
  /\ files = NoFiles
  /\ \E place \in Plans : run = [r \in Runs |-> [at |-> "new", place |-> place[r]]]
  /\ together = {} /\ first = Missing
  /\ pc = "off" /\ trusted = Missing /\ served = Missing
  /\ disturbed = FALSE /\ expired = FALSE
  /\ call = [c \in Calls |-> "none"]
  /\ starts = 0 /\ kills = 0

-----------------------------------------------------------------------------
(* Generating a pair: generate-keys looks before it writes, generate-certs  *)
(* does not.                                                                *)

At(r, step) == run[r].at = step
Goto(r, step) == run' = [run EXCEPT ![r].at = step]

\* Faulty variant: nobody looks.
FirstStepWrites(place) == "open_private"

FirstStep(place) == IF place = "identity" THEN "stat_private" ELSE "open_private"

Begin(r) ==
  /\ At(r, "new")
  /\ Goto(r, FirstStep(run[r].place))
  /\ together' = IF \E s \in Running : run[s].place = run[r].place
                   THEN together \cup {run[r].place} ELSE together
  /\ UNCHANGED <<files, first, serverVars, kills>>

Stat(r, half) ==
  /\ At(r, IF half = "private" THEN "stat_private" ELSE "stat_public")
  /\ Goto(r, IF files[run[r].place][half] # Missing THEN "refused"
             ELSE IF half = "private" THEN "stat_public" ELSE "open_private")
  /\ UNCHANGED <<files, together, first, serverVars, kills>>

Put(place, half, content) ==
  /\ files' = [files EXCEPT ![place][half] = content]
  /\ disturbed' = (disturbed \/ (place = "tls" /\ pc \in Starting))

Open(r, half) ==
  /\ At(r, IF half = "private" THEN "open_private" ELSE "open_public")
  /\ Put(run[r].place, half, Empty)
  /\ Goto(r, IF half = "private" THEN "write_private" ELSE "write_public")
  /\ UNCHANGED <<together, first, pc, trusted, served, expired, call, starts, kills>>

\* The command that has written both says so.
Write(r, half) ==
  /\ At(r, IF half = "private" THEN "write_private" ELSE "write_public")
  /\ Put(run[r].place, half, r)
  /\ Goto(r, IF half = "private" THEN "open_public" ELSE "done")
  /\ first' = IF half = "public" /\ run[r].place = "identity" /\ first = Missing THEN r ELSE first
  /\ UNCHANGED <<together, pc, trusted, served, expired, call, starts, kills>>

KillRun(r) ==
  /\ At(r, "open_public") \/ At(r, "write_private") \/ At(r, "write_public")
  /\ kills < MaxKills /\ kills' = kills + 1
  /\ Goto(r, "killed")
  /\ UNCHANGED <<files, together, first, serverVars>>

Generate(r) == Begin(r) \/ (\E half \in Halves : Stat(r, half) \/ Open(r, half) \/ Write(r, half))

-----------------------------------------------------------------------------
(* Starting.                                                                *)

\* The configuration is validated and the store opened.
Start ==
  /\ pc = "off" /\ starts < MaxStarts
  /\ starts' = starts + 1
  /\ pc' = "boot" /\ trusted' = Missing /\ served' = Missing
  /\ disturbed' = FALSE /\ expired' = FALSE
  /\ UNCHANGED <<filesVars, call, kills>>

Quit ==
  /\ pc' = "off"
  /\ call' = [c \in Calls |-> IF call[c] \in {"page", "rpc"} THEN "cut" ELSE call[c]]
  /\ UNCHANGED <<filesVars, trusted, served, disturbed, expired, starts>>

\* Whatever goes wrong before the server listens is returned and printed.
StartFails == pc \in {"boot", "wired"} /\ Quit /\ UNCHANGED kills

Certificate == files["tls"]["public"]

NewGatewayHandler ==
  /\ pc = "boot" /\ Certificate \in Runs
  /\ trusted' = Certificate
  /\ pc' = "wired"
  /\ UNCHANGED <<filesVars, served, disturbed, expired, call, starts, kills>>

\* From here on the signals are Run's.
Notify ==
  /\ pc = "wired"
  /\ pc' = "listening"
  /\ UNCHANGED <<filesVars, trusted, served, disturbed, expired, call, starts, kills>>

\* The certificate is read, then the key; a pair that does not match is fatal.
ReadCertificate ==
  /\ pc = "listening" /\ Certificate \in Runs
  /\ served' = Certificate
  /\ pc' = "paired"
  /\ UNCHANGED <<filesVars, trusted, disturbed, expired, call, starts, kills>>

ReadKey ==
  /\ pc = "paired" /\ files["tls"]["private"] = served
  /\ pc' = "serving"
  /\ UNCHANGED <<filesVars, trusted, served, disturbed, expired, call, starts, kills>>

Fatal ==
  /\ \/ pc = "listening" /\ Certificate \notin Runs
     \/ pc = "paired" /\ files["tls"]["private"] # served
  /\ Quit /\ UNCHANGED kills

-----------------------------------------------------------------------------
(* Serving.                                                                 *)

\* A page makes a call of its own over the loopback; a call of the command
\* line is one already.
Accept(c) ==
  /\ pc = "serving" /\ call[c] = "none"
  /\ \E kind \in {"page", "rpc"} : call' = [call EXCEPT ![c] = kind]
  /\ UNCHANGED <<filesVars, pc, trusted, served, disturbed, expired, starts, kills>>

\* Faulty variant: the certificate is read again for every connection.
LoopbackTrustsFile == trusted = Certificate

LoopbackTrusts == trusted = served

\* While the server drains its connections the loopback may be gone.
Loopback(c) ==
  /\ call[c] = "page" /\ pc \in {"serving", "draining", "stopping"}
  /\ \E result \in {"rpc", "failed"} :
       /\ result = "rpc" => LoopbackTrusts
       /\ result = "failed" => ~LoopbackTrusts \/ pc # "serving"
       /\ call' = [call EXCEPT ![c] = result]
  /\ UNCHANGED <<filesVars, pc, trusted, served, disturbed, expired, starts, kills>>

Answer(c) ==
  /\ call[c] = "rpc" /\ pc \in {"serving", "draining", "stopping"}
  /\ call' = [call EXCEPT ![c] = "answered"]
  /\ UNCHANGED <<filesVars, pc, trusted, served, disturbed, expired, starts, kills>>

-----------------------------------------------------------------------------
(* Stopping.                                                                *)

\* Run waits for one signal.  Before that one of them only ends a context
\* that nobody asks (an interrupt), the other one ends the process; after it
\* neither does anything.
Signal ==
  /\ pc \in {"listening", "paired", "serving"}
  /\ pc' = "draining"
  /\ UNCHANGED <<filesVars, trusted, served, disturbed, expired, call, starts, kills>>

Terminate == pc \in {"boot", "wired"} /\ Quit /\ UNCHANGED kills

Busy == \E c \in Calls : call[c] \in {"page", "rpc"}

\* Faulty variant: the time is not limited.
ExpireNever ==
  /\ pc = "draining" /\ ~Busy
  /\ expired' = TRUE /\ UNCHANGED <<filesVars, pc, trusted, served, disturbed, call, starts, kills>>

Expire ==
  /\ pc = "draining" /\ ~expired
  /\ expired' = TRUE
  /\ UNCHANGED <<filesVars, pc, trusted, served, disturbed, call, starts, kills>>

\* Faulty variant: Close instead of Shutdown.
ShutdownClose ==
  /\ pc = "draining"
  /\ pc' = "stopping"
  /\ UNCHANGED <<filesVars, trusted, served, disturbed, expired, call, starts, kills>>

Shutdown ==
  /\ pc = "draining" /\ (~Busy \/ expired)
  /\ pc' = "stopping"
  /\ UNCHANGED <<filesVars, trusted, served, disturbed, expired, call, starts, kills>>

GracefulStop == pc = "stopping" /\ Quit /\ UNCHANGED kills

\* The process is killed, the machine goes down, or the listener fails for
\* another reason than its certificate (log.Fatalf).
KillServer ==
  /\ pc # "off" /\ kills < MaxKills /\ kills' = kills + 1
  /\ Quit

-----------------------------------------------------------------------------

Boot == NewGatewayHandler \/ Notify \/ ReadCertificate \/ ReadKey \/ StartFails \/ Fatal

Next ==
  \/ \E r \in Runs : Generate(r) \/ KillRun(r)
  \/ Start \/ Boot
  \/ \E c \in Calls : Accept(c) \/ Loopback(c) \/ Answer(c)
  \/ Signal \/ Terminate \/ Expire \/ Shutdown \/ GracefulStop \/ KillServer

\* The process runs and time passes; calls may take as long as they like.
Fairness == WF_vars(Boot) /\ WF_vars(Expire) /\ WF_vars(Shutdown) /\ WF_vars(GracefulStop)

Spec == Init /\ [][Next]_vars /\ Fairness

-----------------------------------------------------------------------------
(* Properties.                                                              *)

(* A page of a serving server never fails for its loopback connection, if   *)
(* the certificate was left alone while that server started; what is done   *)
(* to it later does not matter.                                             *)
PagesReachTheService ==
  [][\A c \in Calls : call[c] = "page" /\ call'[c] = "failed" /\ pc = "serving" => disturbed]_vars

(* A call that was accepted is cut only by a kill, a listener that fails,   *)
(* or a shutdown that has given it its time.                                *)
CallsGetTheirTime ==
  [][\A c \in Calls : call[c] # "cut" /\ call'[c] = "cut" => expired \/ kills' > kills]_vars

(* A signal that Run waits for ends the process, however long calls take.   *)
SignalEnds == pc = "draining" ~> pc = "off"

(* Once generate-keys has said that a pair is the identity of a user, it    *)
(* stays that in both files, whatever runs and kills follow, if only one    *)
(* such command runs at a time.                                             *)
IdentityKept ==
  first # Missing /\ "identity" \notin together =>
    \A half \in Halves : files["identity"][half] = first

-----------------------------------------------------------------------------
(* The inductive invariant behind IdentityKept, PagesReachTheService and    *)
(* CallsGetTheirTime, in named parts.                                       *)

\* Calls are there only once a server serves, and a shutdown goes on only
\* when they are answered or their time is over.
CallsAccounted ==
  /\ Busy => pc \in {"serving", "draining", "stopping"}
  /\ Busy /\ pc = "stopping" => expired

\* The certificate is read twice, and is the same unless somebody wrote it.
CertificateAgrees ==
  ~disturbed =>
    /\ pc \in {"wired", "listening"} => trusted = Certificate
    /\ pc \in {"paired", "serving"} => trusted = served

AtIdentity(r) == r \in Running /\ run[r].place = "identity"

\* One command at a time: it has looked at both files before it writes, has
\* written the private key before it goes on, and looks no further than that
\* once there is an identity.
IdentityGuarded ==
  "identity" \notin together =>
    /\ \A r, s \in Runs : AtIdentity(r) /\ AtIdentity(s) => r = s
    /\ \A r \in Runs :
         AtIdentity(r) /\ run[r].at \in {"open_public", "write_public"} =>
           files["identity"]["private"] = r
    /\ first # Missing => \A r \in Runs : AtIdentity(r) => run[r].at = "stat_private"

IInv == TypeOK /\ CallsAccounted /\ CertificateAgrees /\ IdentityGuarded /\ IdentityKept

-----------------------------------------------------------------------------
(* Statements that this code does not meet (README).                        *)

(* Private key files that exist are refused (generate_keys.go:75-79).       *)
ExistingIdentityRefused ==
  first # Missing => files["identity"]["private"] = first

(* A shutdown is graceful (app.go:117): what was accepted is answered,      *)
(* unless its time is over or the certificate was changed.                  *)
ShutdownIsGraceful ==
  [][\A c \in Calls : call[c] = "page" /\ call'[c] = "failed" => disturbed \/ expired]_vars

(* A serving server can serve its pages: the internal client trusts its     *)
(* certificate (app.go:173).                                                *)
InternalClientTrusts == pc = "serving" => LoopbackTrusts
=============================================================================
