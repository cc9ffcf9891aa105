---------------------------- MODULE ServerProofs ----------------------------
(***************************************************************************)
(* Proofs about Server, for any number of generating commands, calls,      *)
(* starts and kills.                                                       *)
(***************************************************************************)
EXTENDS Server, TLAPS

USE ContentAssumption, PlansAssumption, BoundsAssumption

LEMMA InitInv == Init => IInv
<1> SUFFICES ASSUME Init PROVE IInv
  OBVIOUS
<1> USE DEF Init
<1>1. TypeOK
  <2>1. files \in [Places -> [Halves -> Content]]
    BY DEF NoFiles, Content
  <2>2. run \in [Runs -> [at: Steps \cup {"new", "done", "refused", "killed"}, place: Places]]
    <3>1. PICK place \in Plans : run = [r \in Runs |-> [at |-> "new", place |-> place[r]]]
      OBVIOUS
    <3>2. place \in [Runs -> Places]
      OBVIOUS
    <3> QED
      BY <3>1, <3>2
  <2>3. call \in [Calls -> {"none", "page", "rpc", "answered", "failed", "cut"}]
    OBVIOUS
  <2>4. disturbed \in BOOLEAN /\ expired \in BOOLEAN
    OBVIOUS
  <2>5. starts \in 0..MaxStarts /\ kills \in 0..MaxKills
    OBVIOUS
  <2>6. /\ together \subseteq Places /\ first \in Runs \cup {Missing}
        /\ pc \in Starting \cup {"off", "serving", "draining", "stopping"}
        /\ trusted \in Runs \cup {Missing} /\ served \in Runs \cup {Missing}
    OBVIOUS
  <2> HIDE DEF Init
  <2> QED
    BY <2>1, <2>2, <2>3, <2>4, <2>5, <2>6 DEF TypeOK
<1>2. Running = {}
  BY DEF Running, Steps
<1> QED
  BY <1>1, <1>2 DEF IInv, CallsAccounted, Busy, CertificateAgrees, IdentityGuarded, AtIdentity, IdentityKept

-----------------------------------------------------------------------------
(* The commands.                                                            *)

(* A command that takes a step: its place stays, and so do the others.      *)
LEMMA GotoFacts ==
  ASSUME TypeOK, NEW r \in Runs, NEW step \in Steps \cup {"done", "refused", "killed"}, Goto(r, step)
  PROVE  /\ run' \in [Runs -> [at: Steps \cup {"new", "done", "refused", "killed"}, place: Places]]
         /\ run'[r].at = step /\ run'[r].place = run[r].place
         /\ \A s \in Runs \ {r} : run'[s] = run[s]
BY DEF Goto, TypeOK

(* What concerns the server and its calls, when no file is written.         *)
LEMMA ServerKept ==
  ASSUME IInv, UNCHANGED <<files, serverVars>>
  PROVE  CallsAccounted' /\ CertificateAgrees'
BY DEF IInv, serverVars, CallsAccounted, CertificateAgrees, Busy, Certificate

LEMMA BeginInv ==
  ASSUME IInv, NEW r \in Runs, Begin(r)
  PROVE  IInv'
<1> USE DEF IInv
<1>1. run[r].at = "new" /\ UNCHANGED <<files, first, serverVars, kills>>
  BY DEF Begin, At
<1>2. run[r].place \in Places
  BY DEF TypeOK
<1>3. /\ FirstStep(run[r].place) \in Steps
      /\ run[r].place = "identity" => FirstStep(run[r].place) = "stat_private"
  BY <1>2 DEF FirstStep, Steps
<1>4. /\ run' \in [Runs -> [at: Steps \cup {"new", "done", "refused", "killed"}, place: Places]]
      /\ run'[r].at = FirstStep(run[r].place) /\ run'[r].place = run[r].place
      /\ \A s \in Runs \ {r} : run'[s] = run[s]
  BY <1>3, GotoFacts DEF Begin
<1>5. TypeOK'
  <2>1. together' \subseteq Places
    BY <1>2 DEF Begin, TypeOK
  <2> QED
    BY <1>1, <1>4, <2>1 DEF TypeOK, serverVars
<1>6. CallsAccounted' /\ CertificateAgrees'
  BY <1>1, ServerKept
<1>7. ASSUME "identity" \notin together'
      PROVE  /\ "identity" \notin together
             /\ run[r].place = "identity" => \A s \in Runs : ~AtIdentity(s)
  BY <1>7 DEF Begin, AtIdentity, Running
<1>8. \A s \in Runs : AtIdentity(s)' =>
        \/ s # r /\ AtIdentity(s) /\ run'[s] = run[s]
        \/ s = r /\ run[r].place = "identity" /\ run'[r].at = "stat_private"
  BY <1>3, <1>4 DEF AtIdentity, Running
<1>9. IdentityGuarded'
  <2> SUFFICES ASSUME "identity" \notin together'
               PROVE  /\ \A q, s \in Runs : AtIdentity(q)' /\ AtIdentity(s)' => q = s
                      /\ \A s \in Runs :
                           AtIdentity(s)' /\ run'[s].at \in {"open_public", "write_public"} =>
                             files'["identity"]["private"] = s
                      /\ first' # Missing =>
                           \A s \in Runs : AtIdentity(s)' => run'[s].at = "stat_private"
    BY DEF IdentityGuarded
  <2> QED
    BY <1>1, <1>7, <1>8 DEF IdentityGuarded
<1>10. IdentityKept'
  BY <1>1, <1>7 DEF IdentityKept
<1> QED
  BY <1>5, <1>6, <1>9, <1>10

LEMMA StatInv ==
  ASSUME IInv, NEW r \in Runs, NEW half \in Halves, Stat(r, half)
  PROVE  IInv'
<1> USE DEF IInv
<1> DEFINE step == IF files[run[r].place][half] # Missing THEN "refused"
                   ELSE IF half = "private" THEN "stat_public" ELSE "open_private"
<1>1. /\ run[r].at \in {"stat_private", "stat_public"} /\ r \in Running
      /\ half = "private" <=> run[r].at = "stat_private"
      /\ UNCHANGED <<files, together, first, serverVars, kills>>
  BY DEF Stat, At, Running, Steps, Halves
<1>2. step \in {"refused", "stat_public", "open_private"}
  OBVIOUS
<1>3. /\ run' \in [Runs -> [at: Steps \cup {"new", "done", "refused", "killed"}, place: Places]]
      /\ run'[r].at = step /\ run'[r].place = run[r].place
      /\ \A s \in Runs \ {r} : run'[s] = run[s]
  BY <1>2, GotoFacts DEF Stat, Steps
<1>4. TypeOK'
  BY <1>1, <1>3 DEF TypeOK, serverVars
<1>5. CallsAccounted' /\ CertificateAgrees'
  BY <1>1, ServerKept
<1>6. \A s \in Runs : AtIdentity(s)' => AtIdentity(s) /\ (s # r => run'[s] = run[s])
  BY <1>1, <1>3 DEF AtIdentity, Running
<1>7. ASSUME "identity" \notin together, first # Missing, run[r].place = "identity"
      PROVE  step = "refused"
  <2>1. run[r].at = "stat_private"
    BY <1>1, <1>7 DEF IdentityGuarded, AtIdentity
  <2>2. files["identity"]["private"] # Missing
    BY <1>7 DEF IdentityKept, Halves
  <2> QED
    BY <1>1, <1>7, <2>1, <2>2
<1> HIDE DEF step
<1>8. IdentityGuarded'
  <2> SUFFICES ASSUME "identity" \notin together'
               PROVE  /\ \A q, s \in Runs : AtIdentity(q)' /\ AtIdentity(s)' => q = s
                      /\ \A s \in Runs :
                           AtIdentity(s)' /\ run'[s].at \in {"open_public", "write_public"} =>
                             files'["identity"]["private"] = s
                      /\ first' # Missing =>
                           \A s \in Runs : AtIdentity(s)' => run'[s].at = "stat_private"
    BY DEF IdentityGuarded
  <2>1. \A q, s \in Runs : AtIdentity(q)' /\ AtIdentity(s)' => q = s
    BY <1>1, <1>6 DEF IdentityGuarded
  <2>2. ASSUME NEW s \in Runs, AtIdentity(s)', run'[s].at \in {"open_public", "write_public"}
        PROVE  files'["identity"]["private"] = s
    BY <1>1, <1>2, <1>3, <1>6, <2>2 DEF IdentityGuarded
  <2>3. ASSUME first' # Missing, NEW s \in Runs, AtIdentity(s)'
        PROVE  run'[s].at = "stat_private"
    <3>1. CASE s = r
      <4>1. run[r].place = "identity"
        BY <1>3, <2>3, <3>1 DEF AtIdentity
      <4>2. run'[r].at = "refused"
        BY <1>1, <1>3, <1>7, <2>3, <4>1
      <4> QED
        BY <2>3, <3>1, <4>2 DEF AtIdentity, Running, Steps
    <3>2. CASE s # r
      BY <1>1, <1>6, <2>3, <3>2 DEF IdentityGuarded
    <3> QED
      BY <3>1, <3>2
  <2> QED
    BY <2>1, <2>2, <2>3
<1>9. IdentityKept'
  BY <1>1 DEF IdentityKept
<1> QED
  BY <1>4, <1>5, <1>8, <1>9

(* A file is written: a certificate that agreed before is either another    *)
(* file, or is now known to have been disturbed.                            *)
LEMMA PutFacts ==
  ASSUME IInv, NEW place \in Places, NEW half \in Halves, NEW content \in Content,
         Put(place, half, content), UNCHANGED <<pc, trusted, served, expired, call>>
  PROVE  /\ files' \in [Places -> [Halves -> Content]] /\ disturbed' \in BOOLEAN
         /\ files'[place][half] = content
         /\ \A p \in Places, h \in Halves :
              p # place \/ h # half => files'[p][h] = files[p][h]
         /\ CallsAccounted' /\ CertificateAgrees'
<1> USE DEF IInv, Put
<1>1. files' \in [Places -> [Halves -> Content]] /\ disturbed' \in BOOLEAN
  BY DEF TypeOK
<1>2. files'[place][half] = content
  BY DEF TypeOK
<1>3. \A p \in Places, h \in Halves : p # place \/ h # half => files'[p][h] = files[p][h]
  BY DEF TypeOK
<1>4. CallsAccounted'
  BY DEF CallsAccounted, Busy
<1>5. CertificateAgrees'
  <2> SUFFICES ASSUME ~disturbed'
               PROVE  /\ pc' \in {"wired", "listening"} => trusted' = Certificate'
                      /\ pc' \in {"paired", "serving"} => trusted' = served'
    BY DEF CertificateAgrees
  <2>1. ~disturbed /\ (pc \in {"wired", "listening"} => place # "tls")
    BY DEF Starting
  <2>2. pc \in {"wired", "listening"} => Certificate' = Certificate
    BY <1>3, <2>1 DEF Certificate, Places, Halves
  <2> QED
    BY <2>1, <2>2 DEF CertificateAgrees
<1> QED
  BY <1>1, <1>2, <1>3, <1>4, <1>5

(* While a command writes an identity alone, there is none yet.             *)
LEMMA WriterFirst ==
  ASSUME IInv, NEW r \in Runs, AtIdentity(r), run[r].at # "stat_private", "identity" \notin together
  PROVE  first = Missing
BY DEF IInv, IdentityGuarded

LEMMA OpenInv ==
  ASSUME IInv, NEW r \in Runs, NEW half \in Halves, Open(r, half)
  PROVE  IInv'
<1> USE DEF IInv
<1> DEFINE step == IF half = "private" THEN "write_private" ELSE "write_public"
<1>1. /\ run[r].at = (IF half = "private" THEN "open_private" ELSE "open_public")
      /\ r \in Running /\ run[r].place \in Places /\ run[r].at # "stat_private"
      /\ UNCHANGED <<together, first, pc, trusted, served, expired, call, starts, kills>>
  BY DEF Open, At, Running, Steps, Halves, TypeOK
<1>2. /\ run' \in [Runs -> [at: Steps \cup {"new", "done", "refused", "killed"}, place: Places]]
      /\ run'[r].at = step /\ run'[r].place = run[r].place
      /\ \A s \in Runs \ {r} : run'[s] = run[s]
  BY GotoFacts DEF Open, Steps
<1>3. /\ files' \in [Places -> [Halves -> Content]] /\ disturbed' \in BOOLEAN
      /\ \A p \in Places, h \in Halves :
           p # run[r].place \/ h # half => files'[p][h] = files[p][h]
      /\ CallsAccounted' /\ CertificateAgrees'
  BY <1>1, PutFacts DEF Open, Content
<1>4. TypeOK'
  BY <1>1, <1>2, <1>3 DEF TypeOK
<1>5. \A s \in Runs : AtIdentity(s)' => AtIdentity(s) /\ (s # r => run'[s] = run[s])
  BY <1>1, <1>2 DEF AtIdentity, Running
<1>6. IdentityGuarded' /\ IdentityKept'
  <2>1. CASE "identity" \in together
    BY <1>1, <2>1 DEF IdentityGuarded, IdentityKept
  <2>2. CASE "identity" \notin together /\ run[r].place # "identity"
    <3>1. \A h \in Halves : files'["identity"][h] = files["identity"][h]
      BY <1>3, <2>2 DEF Places
    <3>2. \A s \in Runs : AtIdentity(s)' => AtIdentity(s) /\ run'[s] = run[s]
      BY <1>2, <1>5, <2>2 DEF AtIdentity
    <3>3. "private" \in Halves
      BY DEF Halves
    <3> QED
      BY <1>1, <3>1, <3>2, <3>3 DEF IdentityGuarded, IdentityKept
  <2>3. CASE "identity" \notin together /\ run[r].place = "identity"
    <3>1. AtIdentity(r) /\ first = Missing
      BY <1>1, <2>3, WriterFirst DEF AtIdentity
    <3>2. \A s \in Runs : AtIdentity(s)' => s = r
      BY <1>5, <2>3, <3>1 DEF IdentityGuarded
    <3>3. run'[r].at \in {"open_public", "write_public"} => files'["identity"]["private"] = r
      <4>1. CASE half = "private"
        BY <1>2, <4>1
      <4>2. CASE half = "public"
        <5>1. files["identity"]["private"] = r
          BY <1>1, <2>3, <3>1, <4>2 DEF IdentityGuarded
        <5> QED
          BY <1>3, <4>2, <5>1 DEF Places, Halves
      <4> QED
        BY <4>1, <4>2 DEF Halves
    <3> QED
      BY <1>1, <3>1, <3>2, <3>3 DEF IdentityGuarded, IdentityKept
  <2> QED
    BY <2>1, <2>2, <2>3
<1> QED
  BY <1>3, <1>4, <1>6

LEMMA WriteInv ==
  ASSUME IInv, NEW r \in Runs, NEW half \in Halves, Write(r, half)
  PROVE  IInv'
<1> USE DEF IInv
<1> DEFINE step == IF half = "private" THEN "open_public" ELSE "done"
<1>1. /\ run[r].at = (IF half = "private" THEN "write_private" ELSE "write_public")
      /\ r \in Running /\ run[r].place \in Places /\ run[r].at # "stat_private"
      /\ first' = IF half = "public" /\ run[r].place = "identity" /\ first = Missing THEN r ELSE first
      /\ UNCHANGED <<together, pc, trusted, served, expired, call, starts, kills>>
  BY DEF Write, At, Running, Steps, Halves, TypeOK
<1>2. /\ run' \in [Runs -> [at: Steps \cup {"new", "done", "refused", "killed"}, place: Places]]
      /\ run'[r].at = step /\ run'[r].place = run[r].place
      /\ \A s \in Runs \ {r} : run'[s] = run[s]
  BY GotoFacts DEF Write, Steps
<1>3. /\ files' \in [Places -> [Halves -> Content]] /\ disturbed' \in BOOLEAN
      /\ files'[run[r].place][half] = r
      /\ \A p \in Places, h \in Halves :
           p # run[r].place \/ h # half => files'[p][h] = files[p][h]
      /\ CallsAccounted' /\ CertificateAgrees'
  BY <1>1, PutFacts DEF Write, Content
<1>4. TypeOK'
  BY <1>1, <1>2, <1>3 DEF TypeOK
<1>5. \A s \in Runs : AtIdentity(s)' => AtIdentity(s) /\ (s # r => run'[s] = run[s])
  BY <1>1, <1>2 DEF AtIdentity, Running
<1>6. IdentityGuarded' /\ IdentityKept'
  <2>1. CASE "identity" \in together
    BY <1>1, <2>1 DEF IdentityGuarded, IdentityKept
  <2>2. CASE "identity" \notin together /\ run[r].place # "identity"
    <3>1. \A h \in Halves : files'["identity"][h] = files["identity"][h]
      BY <1>3, <2>2 DEF Places
    <3>2. \A s \in Runs : AtIdentity(s)' => AtIdentity(s) /\ run'[s] = run[s]
      BY <1>2, <1>5, <2>2 DEF AtIdentity
    <3>3. "private" \in Halves /\ first' = first
      BY <1>1, <2>2 DEF Halves
    <3> QED
      BY <1>1, <3>1, <3>2, <3>3 DEF IdentityGuarded, IdentityKept
  <2>3. CASE "identity" \notin together /\ run[r].place = "identity"
    <3>1. AtIdentity(r) /\ first = Missing
      BY <1>1, <2>3, WriterFirst DEF AtIdentity
    <3>2. \A s \in Runs : AtIdentity(s)' => s = r
      BY <1>5, <2>3, <3>1 DEF IdentityGuarded
    <3>3. CASE half = "private"
      <4>1. files'["identity"]["private"] = r /\ first' = Missing
        BY <1>1, <1>3, <2>3, <3>1, <3>3
      <4> QED
        BY <1>1, <3>2, <4>1 DEF IdentityGuarded, IdentityKept
    <3>4. CASE half = "public"
      <4>1. files["identity"]["private"] = r
        BY <1>1, <2>3, <3>1, <3>4 DEF IdentityGuarded
      <4>2. \A h \in Halves : files'["identity"][h] = r
        BY <1>3, <2>3, <3>4, <4>1 DEF Places, Halves
      <4>3. first' = r
        BY <1>1, <2>3, <3>1, <3>4
      <4>4. \A s \in Runs : ~AtIdentity(s)'
        BY <1>2, <3>2, <3>4 DEF AtIdentity, Running, Steps
      <4> QED
        BY <4>2, <4>3, <4>4 DEF IdentityGuarded, IdentityKept
    <3> QED
      BY <3>3, <3>4 DEF Halves
  <2> QED
    BY <2>1, <2>2, <2>3
<1> QED
  BY <1>3, <1>4, <1>6

LEMMA KillRunInv ==
  ASSUME IInv, NEW r \in Runs, KillRun(r)
  PROVE  IInv'
<1> USE DEF IInv
<1>1. /\ kills < MaxKills /\ kills' = kills + 1
      /\ UNCHANGED <<files, together, first, serverVars>>
  BY DEF KillRun
<1>2. /\ run' \in [Runs -> [at: Steps \cup {"new", "done", "refused", "killed"}, place: Places]]
      /\ run'[r].at = "killed" /\ run'[r].place = run[r].place
      /\ \A s \in Runs \ {r} : run'[s] = run[s]
  BY GotoFacts DEF KillRun
<1>3. TypeOK'
  BY <1>1, <1>2 DEF TypeOK, serverVars
<1>4. CallsAccounted' /\ CertificateAgrees'
  BY <1>1, ServerKept
<1>5. \A s \in Runs : AtIdentity(s)' => AtIdentity(s) /\ run'[s] = run[s]
  BY <1>2 DEF AtIdentity, Running, Steps
<1>6. IdentityGuarded' /\ IdentityKept'
  BY <1>1, <1>5 DEF IdentityGuarded, IdentityKept
<1> QED
  BY <1>3, <1>4, <1>6

-----------------------------------------------------------------------------
(* The server: nothing it does touches a file.                              *)

LEMMA FilesKept ==
  ASSUME IInv, UNCHANGED filesVars
  PROVE  IdentityGuarded' /\ IdentityKept' /\ Certificate' = Certificate
BY DEF IInv, filesVars, IdentityGuarded, IdentityKept, AtIdentity, Running, Certificate

LEMMA StartInv ==
  ASSUME IInv, Start
  PROVE  IInv'
<1> USE DEF IInv
<1>1. TypeOK'
  <2>1. starts' \in 0..MaxStarts
    BY DEF Start, TypeOK
  <2>2. UNCHANGED <<files, run, together, first, call, kills>>
    BY DEF Start, filesVars
  <2>3. /\ pc' = "boot" /\ trusted' = Missing /\ served' = Missing
        /\ disturbed' = FALSE /\ expired' = FALSE
    BY DEF Start
  <2>4. disturbed' \in BOOLEAN /\ expired' \in BOOLEAN
    BY <2>3
  <2> QED
    BY <2>1, <2>2, <2>3, <2>4 DEF TypeOK, Starting
<1>2. CallsAccounted' /\ CertificateAgrees'
  BY DEF Start, CallsAccounted, CertificateAgrees, Busy
<1>3. UNCHANGED filesVars
  BY DEF Start
<1> QED
  BY <1>1, <1>2, <1>3, FilesKept

(* The process ends: what it was doing is cut.                              *)
LEMMA QuitInv ==
  ASSUME IInv, Quit, kills' \in 0..MaxKills
  PROVE  IInv'
<1> USE DEF IInv
<1>1. /\ pc' = "off" /\ call' = [c \in Calls |-> IF call[c] \in {"page", "rpc"} THEN "cut" ELSE call[c]]
      /\ UNCHANGED <<filesVars, trusted, served, disturbed, expired, starts>>
  BY DEF Quit
<1>2. \A c \in Calls : call'[c] \notin {"page", "rpc"}
  BY <1>1
<1>3. TypeOK'
  <2>1. call' \in [Calls -> {"none", "page", "rpc", "answered", "failed", "cut"}]
    BY <1>1 DEF TypeOK
  <2> QED
    BY <1>1, <2>1 DEF TypeOK, filesVars
<1>4. CallsAccounted' /\ CertificateAgrees'
  BY <1>1, <1>2 DEF CallsAccounted, CertificateAgrees, Busy
<1> QED
  BY <1>1, <1>3, <1>4, FilesKept

LEMMA BootInv ==
  ASSUME IInv, NewGatewayHandler \/ Notify \/ ReadCertificate \/ ReadKey
  PROVE  IInv'
<1> USE DEF IInv
<1>1. UNCHANGED <<filesVars, disturbed, expired, call, starts, kills>> /\ pc \in Starting
  BY DEF NewGatewayHandler, Notify, ReadCertificate, ReadKey, Starting
<1>2. TypeOK'
  <2>1. pc' \in Starting \cup {"off", "serving", "draining", "stopping"}
    BY DEF NewGatewayHandler, Notify, ReadCertificate, ReadKey, Starting
  <2>2. trusted' \in Runs \cup {Missing} /\ served' \in Runs \cup {Missing}
    BY DEF NewGatewayHandler, Notify, ReadCertificate, ReadKey, TypeOK
  <2> QED
    BY <1>1, <2>1, <2>2 DEF TypeOK, filesVars
<1>3. CallsAccounted'
  BY <1>1 DEF CallsAccounted, Busy, Starting
<1>4. Certificate' = Certificate
  BY <1>1, FilesKept
<1>5. CertificateAgrees'
  BY <1>1, <1>4 DEF NewGatewayHandler, Notify, ReadCertificate, ReadKey, CertificateAgrees
<1> QED
  BY <1>1, <1>2, <1>3, <1>5, FilesKept

LEMMA CallInv ==
  ASSUME IInv, NEW c \in Calls, Accept(c) \/ Loopback(c) \/ Answer(c)
  PROVE  IInv'
<1> USE DEF IInv
<1>1. UNCHANGED <<filesVars, pc, trusted, served, disturbed, expired, starts, kills>>
  BY DEF Accept, Loopback, Answer
<1>2. PICK to \in {"page", "rpc", "answered", "failed"} : call' = [call EXCEPT ![c] = to]
  BY DEF Accept, Loopback, Answer
<1>3. TypeOK'
  <2>1. call' \in [Calls -> {"none", "page", "rpc", "answered", "failed", "cut"}]
    BY <1>2 DEF TypeOK
  <2> QED
    BY <1>1, <2>1 DEF TypeOK, filesVars
<1>4. Busy' => Busy \/ pc = "serving"
  <2>1. CASE Accept(c)
    BY <2>1 DEF Accept
  <2>2. CASE Loopback(c) \/ Answer(c)
    <3>1. call[c] \in {"page", "rpc"}
      BY <2>2 DEF Loopback, Answer
    <3> QED
      BY <3>1 DEF Busy
  <2> QED
    BY <2>1, <2>2
<1>5. CallsAccounted'
  BY <1>1, <1>4 DEF CallsAccounted
<1>6. CertificateAgrees'
  BY <1>1, FilesKept DEF CertificateAgrees
<1> QED
  BY <1>1, <1>3, <1>5, <1>6, FilesKept

LEMMA StopInv ==
  ASSUME IInv, Signal \/ Expire \/ Shutdown
  PROVE  IInv'
<1> USE DEF IInv
<1>1. UNCHANGED <<filesVars, trusted, served, disturbed, call, starts, kills>>
  BY DEF Signal, Expire, Shutdown
<1>2. TypeOK'
  BY <1>1 DEF Signal, Expire, Shutdown, TypeOK, filesVars
<1>3. CallsAccounted'
  BY <1>1 DEF Signal, Expire, Shutdown, CallsAccounted, Busy
<1>4. CertificateAgrees'
  BY <1>1 DEF Signal, Expire, Shutdown, CertificateAgrees
<1> QED
  BY <1>1, <1>2, <1>3, <1>4, FilesKept

-----------------------------------------------------------------------------

(* Every way to end the process.                                            *)
LEMMA EndInv ==
  ASSUME IInv, StartFails \/ Fatal \/ Terminate \/ GracefulStop \/ KillServer
  PROVE  IInv'
<1>1. Quit /\ kills' \in 0..MaxKills
  BY DEF StartFails, Fatal, Terminate, GracefulStop, KillServer, IInv, TypeOK
<1> QED
  BY <1>1, QuitInv

LEMMA NextInv == IInv /\ [Next]_vars => IInv'
<1> SUFFICES ASSUME IInv, [Next]_vars PROVE IInv'
  OBVIOUS
<1>1. CASE UNCHANGED vars
  <2>1. TypeOK'
    BY <1>1 DEF vars, filesVars, serverVars, IInv, TypeOK
  <2>2. CallsAccounted' /\ CertificateAgrees'
    BY <1>1, ServerKept DEF vars, filesVars
  <2> QED
    BY <1>1, <2>1, <2>2, FilesKept DEF vars, IInv
<1>2. CASE Next
  <2>1. ASSUME NEW r \in Runs, Generate(r) \/ KillRun(r) PROVE IInv'
    BY <2>1, BeginInv, StatInv, OpenInv, WriteInv, KillRunInv DEF Generate
  <2>2. ASSUME NEW c \in Calls, Accept(c) \/ Loopback(c) \/ Answer(c) PROVE IInv'
    BY <2>2, CallInv
  <2>3. CASE Start \/ Boot
    BY <2>3, StartInv, BootInv, EndInv DEF Boot
  <2>4. CASE Signal \/ Terminate \/ Expire \/ Shutdown \/ GracefulStop \/ KillServer
    BY <2>4, StopInv, EndInv
  <2> QED
    BY <1>2, <2>1, <2>2, <2>3, <2>4 DEF Next
<1> QED
  BY <1>1, <1>2

(* The inductive invariant of the server and its key files: every variable  *)
(* keeps its type, calls are there only while it serves, the certificate is *)
(* the one that was read first unless somebody wrote it, and commands that  *)
(* run alone write an identity only where there is none.                    *)
THEOREM Invariance == Spec => []IInv
BY InitInv, NextInv, PTL DEF Spec

(* An identity that generate-keys announced stays in both files, whatever   *)
(* commands and kills follow, if one such command runs at a time.           *)
THEOREM IdentitiesStay == Spec => []IdentityKept
<1>1. IInv => IdentityKept
  BY DEF IInv
<1> QED
  BY <1>1, Invariance, PTL

(* Pages of a serving server reach the service over the loopback, if the    *)
(* certificate was left alone while that server started.                    *)
THEOREM LoopbackWorks == Spec => PagesReachTheService
<1> DEFINE A == \A c \in Calls : call[c] = "page" /\ call'[c] = "failed" /\ pc = "serving" => disturbed
<1>1. IInv /\ [Next]_vars => [A]_vars
  <2> SUFFICES ASSUME IInv, Next, NEW c \in Calls,
                      call[c] = "page", call'[c] = "failed", pc = "serving"
               PROVE  disturbed
    OBVIOUS
  <2>1. UNCHANGED call => FALSE
    OBVIOUS
  <2>2. Quit => FALSE
    BY DEF Quit
  <2>3. PICK d \in Calls : Accept(d) \/ Loopback(d) \/ Answer(d)
    BY <2>1, <2>2 DEF Next, Generate, Begin, Stat, Open, Write, KillRun, serverVars, Start, Boot,
       NewGatewayHandler, Notify, ReadCertificate, ReadKey, StartFails, Fatal,
       Signal, Terminate, Expire, Shutdown, GracefulStop, KillServer
  <2>4. d = c /\ Loopback(c)
    BY <2>3 DEF Accept, Loopback, Answer, IInv, TypeOK
  <2>5. ~LoopbackTrusts
    BY <2>4 DEF Loopback, IInv, TypeOK
  <2> QED
    BY <2>5 DEF LoopbackTrusts, IInv, CertificateAgrees
<1> QED
  BY <1>1, Invariance, PTL DEF Spec, PagesReachTheService

(* A call that was accepted is cut only by a kill, a listener that fails,   *)
(* or a shutdown that has given it its time (App.Run).                      *)
THEOREM CallsFinish == Spec => CallsGetTheirTime
<1> DEFINE A == \A c \in Calls : call[c] # "cut" /\ call'[c] = "cut" => expired \/ kills' > kills
<1>1. IInv /\ [Next]_vars => [A]_vars
  <2> SUFFICES ASSUME IInv, Next, NEW c \in Calls, call[c] # "cut", call'[c] = "cut"
               PROVE  expired \/ kills' > kills
    OBVIOUS
  <2>1. UNCHANGED call => FALSE
    OBVIOUS
  <2>2. ASSUME NEW d \in Calls PROVE ~(Accept(d) \/ Loopback(d) \/ Answer(d))
    BY DEF Accept, Loopback, Answer, IInv, TypeOK
  <2>3. Quit
    BY <2>1, <2>2 DEF Next, Generate, Begin, Stat, Open, Write, KillRun, serverVars, Start, Boot,
       NewGatewayHandler, Notify, ReadCertificate, ReadKey, StartFails, Fatal,
       Signal, Terminate, Expire, Shutdown, GracefulStop, KillServer
  <2>4. Busy
    BY <2>3 DEF Quit, Busy
  <2>5. GracefulStop \/ KillServer
    <3>1. pc \notin Starting /\ pc # "off"
      BY <2>4 DEF IInv, CallsAccounted, Starting
    <3>2. pc' = "off"
      BY <2>3 DEF Quit
    <3>3. \A r \in Runs : ~(Generate(r) \/ KillRun(r))
      BY <2>1 DEF Generate, Begin, Stat, Open, Write, KillRun, serverVars
    <3> QED
      BY <2>2, <3>1, <3>2, <3>3 DEF Next, Starting, Start, Boot, NewGatewayHandler, Notify, ReadCertificate,
         ReadKey, StartFails, Fatal, Signal, Terminate, Expire, Shutdown
  <2>6. CASE GracefulStop
    BY <2>4, <2>6 DEF GracefulStop, IInv, CallsAccounted
  <2>7. CASE KillServer
    BY <2>7 DEF KillServer, IInv, TypeOK
  <2> QED
    BY <2>5, <2>6, <2>7
<1> QED
  BY <1>1, Invariance, PTL DEF Spec, CallsGetTheirTime
=============================================================================
