--------------------------- MODULE SessionsProofs ---------------------------
(***************************************************************************)
(* Proofs about MagicLinks, for any links, visitors, restarts and lifetime, *)
(* and about Sessions, for any users and configurations as well.  What is  *)
(* shown of single steps of the links carries over to the sessions, for    *)
(* every step of a visitor with a page is one of MagicLinks, or leaves its *)
(* variables alone.                                                        *)
(***************************************************************************)
EXTENDS Sessions, TLAPS

USE NoLinkAssumption, BoundsAssumption

-----------------------------------------------------------------------------
(* Links.                                                                   *)

LEMMA InitInv == Init => IInv
BY DEF Init, IInv, TypeOK, UsedOnce, Delivered, SingleUse, PCs, Never

(* Signing needs a link that was never signed, so one that is neither in the *)
(* map nor with a visitor and that gave no session.                          *)
LEMMA GenerateInv ==
  ASSUME IInv, NEW l \in Links, GenerateMagicLink(l) PROVE IInv'
<1> USE DEF IInv, GenerateMagicLink
<1>1. clock + Lifetime \in Nat /\ clock + Lifetime # Never
  BY DEF TypeOK, Never
<1>2. TypeOK'
  BY <1>1 DEF TypeOK, visits
<1>3. sessions[l] = 0
  BY DEF UsedOnce
<1>4. UsedOnce'
  BY <1>1, <1>3 DEF UsedOnce, TypeOK, visits
<1> QED
  BY <1>1, <1>2, <1>4 DEF Delivered, SingleUse, TypeOK

LEMMA SendInv ==
  ASSUME IInv, NEW l \in Links, SendEmail(l) PROVE IInv'
<1> USE DEF IInv, SendEmail
<1>1. TypeOK'
  BY DEF TypeOK, visits, tokens
<1>2. UsedOnce'
  BY DEF UsedOnce, visits, tokens
<1> QED
  BY <1>1, <1>2 DEF Delivered, SingleUse, tokens

(* A visitor that moves, and does not use a link up.                         *)
LEMMA MoveInv ==
  ASSUME IInv, NEW v \in Visitors, NEW label \in PCs \ {"issue"}, Goto(v, label),
         NEW l \in Links, expires[l] # Never, link' = [link EXCEPT ![v] = l],
         UNCHANGED <<clock, restarts, keyKept, tokens, entries, unsent, mailed, sessions>>
  PROVE  IInv'
<1> USE DEF IInv, Goto
<1>1. TypeOK'
  BY DEF TypeOK, tokens
<1>2. UsedOnce'
  BY DEF UsedOnce, TypeOK, tokens
<1> QED
  BY <1>1, <1>2 DEF Delivered, SingleUse, tokens

LEMMA OpenInv ==
  ASSUME IInv, NEW v \in Visitors, NEW l \in Links, Open(v, l) PROVE IInv'
<1>1. expires[l] # Never
  BY DEF IInv, Delivered, Open
<1> QED
  BY <1>1, MoveInv DEF Open, PCs

LEMMA ParseInv ==
  ASSUME IInv, NEW v \in Visitors, Parse(v) PROVE IInv'
<1>1. link[v] \in Links /\ expires[link[v]] # Never
  BY DEF Parse, IInv, UsedOnce
<1>2. link' = [link EXCEPT ![v] = link[v]]
  BY DEF Parse, IInv, TypeOK
<1>3. PICK label \in {"validate", "refused"} : Goto(v, label)
  BY DEF Parse
<1> QED
  BY <1>1, <1>2, <1>3, MoveInv DEF Parse, PCs

LEMMA ValidateInv ==
  ASSUME IInv, NEW v \in Visitors, Validate(v) PROVE IInv'
<1>1. link[v] \in Links /\ expires[link[v]] # Never
  BY DEF Validate, IInv, UsedOnce
<1>2. CASE link[v] \in entries /\ clock <= expires[link[v]]
  <2> USE <1>2 DEF IInv, Validate, Goto
  <2>1. TypeOK'
    BY DEF TypeOK, PCs, tokens
  <2>2. sessions[link[v]] = 0
    BY DEF UsedOnce
  <2>3. \A u \in Visitors : pc[u] = "issue" => link[u] # link[v]
    BY DEF UsedOnce
  <2>4. UsedOnce'
    BY <1>1, <2>2, <2>3 DEF UsedOnce, TypeOK, tokens
  <2> QED
    BY <2>1, <2>4 DEF Delivered, SingleUse, tokens
<1>3. CASE ~(link[v] \in entries /\ clock <= expires[link[v]])
  <2>1. link' = [link EXCEPT ![v] = link[v]]
    BY DEF Validate, IInv, TypeOK
  <2> QED
    BY <1>1, <1>3, <2>1, MoveInv DEF Validate, PCs
<1> QED
  BY <1>2, <1>3

LEMMA IssueInv ==
  ASSUME IInv, NEW v \in Visitors, IssueSessionToken(v) PROVE IInv'
<1> USE DEF IInv, IssueSessionToken, Goto
<1>1. /\ link[v] \in Links /\ expires[link[v]] # Never
      /\ sessions[link[v]] = 0 /\ link[v] \notin entries
  BY DEF UsedOnce
<1>2. sessions' = [sessions EXCEPT ![link[v]] = 1]
  BY <1>1
<1>3. TypeOK'
  <2>1. sessions' \in [Links -> Nat]
    <3>1. sessions \in [Links -> Nat]
      BY DEF TypeOK
    <3> HIDE DEF IInv, IssueSessionToken
    <3> QED
      BY <1>2, <3>1
  <2>2. pc' \in [Visitors -> PCs] /\ link' \in [Visitors -> Links \cup {NoLink}]
    BY DEF TypeOK, PCs
  <2> QED
    BY <2>1, <2>2 DEF TypeOK, tokens
<1>4. UsedOnce'
  BY <1>1, <1>2 DEF UsedOnce, TypeOK, tokens
<1>5. SingleUse'
  BY <1>1, <1>2 DEF SingleUse, TypeOK
<1> QED
  BY <1>3, <1>4, <1>5 DEF Delivered, tokens

LEMMA RestartInv ==
  ASSUME IInv, Restart PROVE IInv'
<1> USE DEF IInv, Restart
<1>1. TypeOK'
  BY DEF TypeOK, PCs, tokens
<1>2. UsedOnce'
  BY DEF UsedOnce, TypeOK, tokens
<1> QED
  BY <1>1, <1>2 DEF Delivered, SingleUse, tokens

LEMMA TickInv ==
  ASSUME IInv, Tick PROVE IInv'
BY DEF IInv, Tick, TypeOK, UsedOnce, Delivered, SingleUse, tokens, visits

LEMMA NextInv == IInv /\ [Next]_vars => IInv'
<1> SUFFICES ASSUME IInv, [Next]_vars PROVE IInv'
  OBVIOUS
<1>1. CASE UNCHANGED vars
  BY <1>1 DEF vars, tokens, visits, IInv, TypeOK, UsedOnce, Delivered, SingleUse
<1>2. CASE Next
  BY <1>2, GenerateInv, SendInv, OpenInv, ParseInv, ValidateInv, IssueInv,
     RestartInv, TickInv DEF Next
<1> QED
  BY <1>1, <1>2

(* A link that is in the map gave no session, and no two visitors hold the   *)
(* same used-up link (Validate, magiclink.go:45).                            *)
THEOREM Invariance == Spec => []IInv
BY InitInv, NextInv, PTL DEF Spec

(* A mailed link gives at most one session, for any number of visitors that  *)
(* verify it and of restarts (ParseAndValidateMagicLink, authn.go:291).      *)
THEOREM OneSessionPerLink == Spec => []SingleUse
<1>1. IInv => SingleUse
  BY DEF IInv
<1> QED
  BY <1>1, Invariance, PTL

(* A link leaves the map by being used, or with the process: every step      *)
(* keeps what the running process signed on record, or used.                 *)
LEMMA RecordedStays == IInv /\ Recorded /\ [Next]_vars => Recorded'
<1> SUFFICES ASSUME IInv, Recorded, [Next]_vars PROVE Recorded'
  OBVIOUS
<1>0. /\ restarts \in Nat /\ clock \in Nat
      /\ expires \in [Links -> {Never} \cup Nat] /\ born \in [Links -> 0..MaxRestarts]
      /\ pc \in [Visitors -> PCs] /\ link \in [Visitors -> Links \cup {NoLink}]
      /\ sessions \in [Links -> Nat]
  BY DEF IInv, TypeOK
<1>1. ASSUME NEW l \in Links, GenerateMagicLink(l) PROVE Recorded'
  BY <1>0, <1>1 DEF Recorded, Used, GenerateMagicLink, visits
<1>2. ASSUME NEW l \in Links, SendEmail(l) PROVE Recorded'
  BY <1>2 DEF Recorded, Used, SendEmail, visits, tokens
<1>3. ASSUME NEW v \in Visitors, Parse(v) \/ \E l \in Links : Open(v, l) PROVE Recorded'
  <2>1. UNCHANGED <<restarts, tokens, entries, sessions>>
    BY <1>3 DEF Open, Parse
  <2>2. pc[v] # "issue" /\ \A u \in Visitors \ {v} : pc'[u] = pc[u] /\ link'[u] = link[u]
    BY <1>0, <1>3 DEF Open, Parse, Goto
  <2>3. \A k \in Links : Used(k) => Used(k)'
    BY <2>1, <2>2 DEF Used
  <2> QED
    BY <2>1, <2>3 DEF Recorded, tokens
<1>4. ASSUME NEW v \in Visitors, Validate(v) PROVE Recorded'
  <2>1. UNCHANGED <<restarts, tokens, sessions, link>>
    BY <1>4 DEF Validate
  <2>2. pc[v] # "issue" /\ \A u \in Visitors \ {v} : pc'[u] = pc[u]
    BY <1>0, <1>4 DEF Validate, Goto
  <2>3. \A k \in Links : Used(k) => Used(k)'
    BY <2>1, <2>2 DEF Used
  <2>4. \A k \in entries : k \in entries' \/ (pc'[v] = "issue" /\ link'[v] = k)
    BY <1>0, <1>4 DEF Validate, Goto
  <2> QED
    BY <2>1, <2>3, <2>4 DEF Recorded, tokens, Used
<1>5. ASSUME NEW v \in Visitors, IssueSessionToken(v) PROVE Recorded'
  <2>1. UNCHANGED <<restarts, tokens, entries>>
    BY <1>5 DEF IssueSessionToken
  <2>2. \A u \in Visitors \ {v} : pc'[u] = pc[u] /\ link'[u] = link[u]
    BY <1>0, <1>5 DEF IssueSessionToken, Goto
  <2>3. link[v] \in Links
    BY <1>5 DEF IssueSessionToken, IInv, UsedOnce
  <2>4. sessions' = [sessions EXCEPT ![link[v]] = sessions[link[v]] + 1]
    BY <1>5 DEF IssueSessionToken
  <2>5. \A k \in Links : sessions'[k] >= sessions[k]
    BY <1>0, <2>3, <2>4
  <2>6. sessions'[link[v]] > 0
    BY <1>0, <2>3, <2>4
  <2>7. \A k \in Links : Used(k) => Used(k)'
    <3> SUFFICES ASSUME NEW k \in Links, Used(k) PROVE Used(k)'
      OBVIOUS
    <3>1. CASE sessions[k] > 0
      <4>1. sessions'[k] \in Nat /\ sessions[k] \in Nat
        BY <1>0, <2>3, <2>4
      <4> QED
        BY <2>5, <3>1, <4>1 DEF Used
    <3>2. CASE \E u \in Visitors : pc[u] = "issue" /\ link[u] = k
      BY <2>2, <2>6, <3>2 DEF Used
    <3> QED
      BY <3>1, <3>2 DEF Used
  <2> QED
    BY <2>1, <2>7 DEF Recorded, tokens
<1>6. CASE Tick
  BY <1>6 DEF Recorded, Used, Tick, tokens, visits
<1>7. CASE Restart
  <2>1. \A l \in Links : born'[l] = born[l] /\ born[l] \in Nat /\ born[l] <= restarts
    BY <1>0, <1>7 DEF Restart, tokens, Recorded
  <2>2. restarts' = restarts + 1
    BY <1>7 DEF Restart
  <2> QED
    BY <1>0, <2>1, <2>2 DEF Recorded
<1>8. CASE UNCHANGED vars
  BY <1>8 DEF vars, Recorded, Used, tokens, visits
<1>9. CASE Next
  <2>1. CASE \E l \in Links : GenerateMagicLink(l) \/ SendEmail(l)
    BY <2>1, <1>1, <1>2
  <2>2. CASE \E v \in Visitors, l \in Links : Open(v, l)
    BY <2>2, <1>3
  <2>3. CASE \E v \in Visitors : Parse(v) \/ Validate(v) \/ IssueSessionToken(v)
    BY <2>3, <1>3, <1>4, <1>5
  <2> QED
    BY <1>9, <2>1, <2>2, <2>3, <1>6, <1>7 DEF Next
<1> QED
  BY <1>8, <1>9

(* What a visitor was told about a link that is neither expired nor from an  *)
(* earlier run: Parse accepts its signature, and Validate finds it, unless   *)
(* it was used.                                                              *)
LEMMA RefusalHasReason ==
  ASSUME IInv, Recorded, [Next]_vars, NEW v \in Visitors, Refuses(v)
  PROVE  LET l == link[v] IN clock >= expires[l] \/ Used(l) \/ restarts > born[l]
<1>0. /\ restarts \in Nat /\ clock \in Nat
      /\ expires \in [Links -> {Never} \cup Nat] /\ born \in [Links -> 0..MaxRestarts]
      /\ pc \in [Visitors -> PCs]
  BY DEF IInv, TypeOK
<1>1. link[v] \in Links /\ expires[link[v]] # Never
  BY DEF IInv, UsedOnce, Refuses
<1>2. expires[link[v]] \in Nat /\ born[link[v]] \in Nat /\ born[link[v]] <= restarts
  BY <1>0, <1>1 DEF Recorded
<1>3. Parse(v) \/ Validate(v)
  <2>1. pc'[v] = "refused" /\ pc[v] # "refused"
    BY DEF Refuses
  <2>2. \A l \in Links : ~GenerateMagicLink(l) /\ ~SendEmail(l)
    BY <2>1 DEF GenerateMagicLink, SendEmail, visits
  <2>3. ~Tick /\ ~Restart /\ ~UNCHANGED vars
    BY <2>1 DEF Tick, Restart, vars, visits
  <2>4. \A u \in Visitors, l \in Links : ~Open(u, l) /\ ~IssueSessionToken(u)
    BY <1>0, <2>1 DEF Open, IssueSessionToken, Goto
  <2>5. \A u \in Visitors : Parse(u) \/ Validate(u) => u = v
    BY <1>0, <2>1 DEF Parse, Validate, Goto
  <2>6. \E u \in Visitors : Parse(u) \/ Validate(u)
    <3>1. Next
      BY <2>3
    <3>2. ~\E l \in Links : GenerateMagicLink(l) \/ SendEmail(l)
      BY <2>2
    <3>3. ~\E u \in Visitors, l \in Links : Open(u, l)
      BY <2>4
    <3>4. PICK u \in Visitors : Parse(u) \/ Validate(u) \/ IssueSessionToken(u)
      BY <2>3, <3>1, <3>2, <3>3 DEF Next
    <3> QED
      BY <1>1, <2>4, <3>4
  <2> QED
    BY <2>5, <2>6
<1>4. CASE Parse(v)
  <2>1. ~Signed(link[v]) \/ ~(clock < expires[link[v]])
    BY <1>0, <1>4 DEF Parse, Goto, Refuses
  <2>2. ~Signed(link[v]) => restarts > born[link[v]]
    BY <1>0, <1>2 DEF Signed
  <2> QED
    BY <1>0, <1>2, <2>1, <2>2
<1>5. CASE Validate(v)
  <2>1. link[v] \notin entries \/ ~(clock <= expires[link[v]])
    BY <1>0, <1>5 DEF Validate, Goto, Refuses
  <2>2. link[v] \notin entries => restarts > born[link[v]] \/ Used(link[v])
    BY <1>0, <1>1, <1>2 DEF Recorded
  <2> QED
    BY <1>0, <1>2, <2>1, <2>2
<1> QED
  BY <1>3, <1>4, <1>5

(* A mailed link is refused only when it expired, was used, or was signed    *)
(* before the process was started again: no interleaving of visitors loses   *)
(* one (Validate, magiclink.go:45).                                          *)
THEOREM RefusedForAReason == Spec => RefusalsJustified
<1>1. Init => Recorded
  BY DEF Init, Recorded
<1>2. IInv /\ Recorded /\ [Next]_vars
        => \A v \in Visitors : Refuses(v) =>
             LET l == link[v] IN clock >= expires[l] \/ Used(l) \/ restarts > born[l]
  BY RefusalHasReason
<1> QED
  BY <1>1, <1>2, RecordedStays, Invariance, PTL DEF Spec, RefusalsJustified

-----------------------------------------------------------------------------
(* Sessions.                                                                *)

USE UsersAssumption, LivesAssumption

(* No token is NoToken.                                                     *)
LEMMA TokensAreTokens == NoToken \notin Token
BY DEF NoToken, Token

LEMMA OwnersTyped == Owners \subseteq [Addresses -> Users \cup {Nobody}]
BY DEF Owners

LEMMA SessionsInitInv == SessionsInit => SessionsIInv
<1> SUFFICES ASSUME SessionsInit PROVE SessionsIInv
  OBVIOUS
<1>1. IInv
  BY InitInv DEF SessionsInit
<1>2. /\ owner \in [Addresses -> Users \cup {Nobody}]
      /\ token = [b \in Browsers |-> NoToken] /\ page = [b \in Browsers |-> NoPage]
  BY OwnersTyped DEF SessionsInit
<1>3. NoPage \in Page /\ NoPage.at = "none" /\ NoPage.sent = NoToken
  BY DEF NoPage, Page
<1>4. SessionsTypeOK
  BY <1>1, <1>2, <1>3 DEF IInv, SessionsTypeOK
<1> QED
  BY <1>1, <1>2, <1>3, <1>4 DEF SessionsIInv, TokensBorn, AnswersTrue, FailuresSent, HeadersTrue, FailuresJustified

(* Steps that no page notices: time may pass.                               *)
LEMMA PagesKept ==
  ASSUME SessionsIInv, IInv',
         UNCHANGED <<owner, token, page, restarts, keyKept>>, clock' >= clock
  PROVE  SessionsIInv'
<1> USE DEF SessionsIInv
<1>1. SessionsTypeOK'
  BY DEF SessionsTypeOK, IInv
<1>2. TokensBorn' /\ AnswersTrue' /\ FailuresSent' /\ HeadersTrue'
  BY DEF TokensBorn, AnswersTrue, EntityOf, FailuresSent, HeadersTrue
<1>3. FailuresJustified'
  <2> SUFFICES ASSUME NEW v \in Browsers, page[v].at = "failed",
                      owner[page[v].sent.address] # Nobody,
                      ~(~keyKept /\ page[v].sent.born < restarts)
               PROVE  page[v].sent.by = "header" /\ clock' >= page[v].sent.since + SessionLife
    BY DEF FailuresJustified
  <2>1. page[v].sent.by = "header" /\ clock >= page[v].sent.since + SessionLife
    BY DEF FailuresJustified
  <2>2. page[v].sent.since \in Nat
    BY DEF FailuresSent, SessionsTypeOK, Page, Token
  <2>3. clock \in Nat /\ clock' \in Nat
    BY DEF SessionsTypeOK, TypeOK, IInv
  <2> QED
    BY <2>1, <2>2, <2>3
<1> QED
  BY <1>1, <1>2, <1>3

(* A step of MagicLinks beside the pages.                                   *)
LEMMA LinksStepInv ==
  ASSUME SessionsIInv, Send \/ Verify \/ TimePasses
  PROVE  SessionsIInv'
<1>1. Next /\ UNCHANGED <<owner, token, page>>
  BY DEF Send, Verify, TimePasses, Next
<1>2. IInv'
  BY <1>1, NextInv DEF SessionsIInv
<1>3. UNCHANGED <<restarts, keyKept>> /\ (clock' = clock \/ clock' = clock + 1)
  BY DEF Send, Verify, TimePasses, GenerateMagicLink, SendEmail, Open, Parse, Validate, Tick
<1>4. clock \in Nat
  BY DEF SessionsIInv, IInv, TypeOK
<1> QED
  BY <1>1, <1>2, <1>3, <1>4, PagesKept

(* A token that is given or given up: what was sent stays sent.             *)
LEMMA TokenInv ==
  ASSUME SessionsIInv, IInv', NEW v \in Browsers, NEW t \in Token \cup {NoToken},
         t # NoToken => t.born <= restarts,
         token' = [token EXCEPT ![v] = t],
         UNCHANGED <<owner, page, clock, restarts, keyKept>>
  PROVE  SessionsIInv'
<1> USE DEF SessionsIInv
<1>1. SessionsTypeOK'
  BY DEF SessionsTypeOK, IInv
<1>2. TokensBorn'
  BY DEF TokensBorn, SessionsTypeOK
<1>3. AnswersTrue' /\ FailuresSent' /\ HeadersTrue' /\ FailuresJustified'
  BY DEF AnswersTrue, EntityOf, FailuresSent, HeadersTrue, FailuresJustified
<1> QED
  BY <1>1, <1>2, <1>3

LEMMA SignInInv ==
  ASSUME SessionsIInv, NEW v \in Visitors, SignIn(v)
  PROVE  SessionsIInv'
<1>1. IssueSessionToken(v) /\ UNCHANGED <<owner, page, clock, restarts, keyKept>>
  BY DEF SignIn, IssueSessionToken
<1>2. IInv'
  BY <1>1, NextInv DEF SessionsIInv, Next
<1>3. CASE v \notin Browsers
  <2>1. clock' >= clock
    BY <1>1 DEF SessionsIInv, IInv, TypeOK
  <2> QED
    BY <1>1, <1>2, <1>3, <2>1, PagesKept DEF SignIn
<1>4. CASE v \in Browsers
  <2>1. PICK by \in {"cookie", "header"} :
          token' = [token EXCEPT ![v] =
            [address |-> AddressOf[link[v]], since |-> clock, born |-> restarts, by |-> by]]
    BY <1>4 DEF SignIn
  <2> DEFINE t == [address |-> AddressOf[link[v]], since |-> clock, born |-> restarts, by |-> by]
  <2>2. link[v] \in Links
    BY <1>1 DEF IssueSessionToken, SessionsIInv, IInv, UsedOnce
  <2>3. AddressOf[link[v]] \in Addresses
    BY <2>2 DEF Addresses
  <2>4. clock \in Nat /\ restarts \in 0..MaxRestarts
    BY DEF SessionsIInv, IInv, TypeOK
  <2>5. t \in Token /\ t.born <= restarts
    BY <2>3, <2>4 DEF Token
  <2> HIDE DEF t
  <2>6. token' = [token EXCEPT ![v] = t]
    BY <2>1 DEF t
  <2> QED
    BY <1>1, <1>2, <1>4, <2>5, <2>6, TokenInv
<1> QED
  BY <1>3, <1>4

LEMMA SignOutInv ==
  ASSUME SessionsIInv, NEW v \in Browsers, SignOut(v)
  PROVE  SessionsIInv'
<1>1. UNCHANGED vars /\ UNCHANGED <<owner, page>> /\ token' = [token EXCEPT ![v] = NoToken]
  BY DEF SignOut
<1>2. IInv' /\ UNCHANGED <<clock, restarts, keyKept>>
  BY <1>1, NextInv DEF SessionsIInv, vars
<1> QED
  BY <1>1, <1>2, TokenInv

-----------------------------------------------------------------------------
(* Pages.                                                                   *)

(* One page gets another record, the rest stays: what the parts of the      *)
(* invariant ask is asked of this record.                                   *)
LEMMA PageInv ==
  ASSUME SessionsIInv, NEW v \in Browsers, NEW p \in Page,
         page' = [page EXCEPT ![v] = p], UNCHANGED <<vars, owner, token>>,
         p.sent # NoToken => p.sent.born <= restarts,
         p.at = "answered" /\ p.sent # NoToken => p.as = EntityOf(p.sent),
         p.at = "failed" =>
           /\ p.sent # NoToken
           /\ \/ owner[p.sent.address] = Nobody
              \/ ~keyKept /\ p.sent.born < restarts
              \/ p.sent.by = "header" /\ clock >= p.sent.since + SessionLife,
         p.at = "shown" /\ p.header # Nobody => p.as = p.header
  PROVE  SessionsIInv'
<1> USE DEF SessionsIInv
<1>1. IInv' /\ UNCHANGED <<clock, restarts, keyKept>>
  BY NextInv DEF vars
<1>2. \A b \in Browsers : page'[b] = p \/ page'[b] = page[b]
  BY DEF SessionsTypeOK
<1>3. SessionsTypeOK'
  BY <1>1 DEF SessionsTypeOK, IInv
<1>4. \A b \in Browsers : page'[b] = IF b = v THEN p ELSE page[b]
  BY DEF SessionsTypeOK
<1> HIDE DEF SessionsIInv
<1>5. TokensBorn'
  BY <1>1, <1>4 DEF SessionsIInv, TokensBorn
<1>6. AnswersTrue'
  BY <1>4 DEF SessionsIInv, AnswersTrue, EntityOf
<1>7. FailuresSent'
  BY <1>4 DEF SessionsIInv, FailuresSent
<1>8. HeadersTrue'
  BY <1>4 DEF SessionsIInv, HeadersTrue
<1>9. FailuresJustified'
  BY <1>1, <1>4 DEF SessionsIInv, FailuresJustified
<1> QED
  BY <1>1, <1>3, <1>5, <1>6, <1>7, <1>8, <1>9 DEF SessionsIInv

(* The service looks at what the browser sends.  A cookie is still good,    *)
(* for the browser gives it up first.                                       *)
LEMMA AuthenticateInv ==
  ASSUME SessionsIInv, NEW v \in Browsers, Authenticate(v)
  PROVE  SessionsIInv'
<1> DEFINE t == Sent(v)
<1>1. UNCHANGED <<vars, owner, token>>
  BY DEF Authenticate
<1>2. t \in Token \cup {NoToken} /\ (t # NoToken => t.born <= restarts)
  BY DEF SessionsIInv, SessionsTypeOK, TokensBorn, Sent
<1>3. clock \in Nat /\ restarts \in Nat
  BY DEF SessionsIInv, IInv, TypeOK
<1>4. CASE t = NoToken
  <2> DEFINE p == [at |-> "answered", sent |-> t, as |-> Nobody, header |-> Nobody]
  <2>1. page' = [page EXCEPT ![v] = p]
    BY <1>4 DEF Authenticate
  <2>2. p \in Page
    BY <1>2 DEF Page
  <2> QED
    BY <1>1, <1>4, <2>1, <2>2, PageInv
<1>5. CASE t # NoToken /\ VerifyToken(t)
  <2> DEFINE p == [at |-> "answered", sent |-> t, as |-> EntityOf(t), header |-> Nobody]
  <2>1. page' = [page EXCEPT ![v] = p]
    BY <1>5 DEF Authenticate
  <2>2. EntityOf(t) \in Users \cup {Nobody}
    BY <1>2, <1>5 DEF EntityOf, Token, SessionsIInv, SessionsTypeOK
  <2>3. p \in Page
    BY <1>2, <2>2 DEF Page
  <2> QED
    BY <1>1, <1>2, <2>1, <2>3, PageInv
<1>6. CASE t # NoToken /\ ~VerifyToken(t)
  <2> DEFINE p == [at |-> "failed", sent |-> t, as |-> Nobody, header |-> Nobody]
  <2>1. page' = [page EXCEPT ![v] = p]
    BY <1>6 DEF Authenticate
  <2>2. p \in Page
    BY <1>2 DEF Page
  <2>3. t \in Token
    BY <1>2, <1>6
  <2>4. t.by = "cookie" => clock < t.since + SessionLife
    <3>1. t = token[v] /\ ~(token[v].by = "cookie" /\ clock >= token[v].since + CookieLife)
      BY <1>6 DEF Sent
    <3>2. t.since \in Nat
      BY <2>3 DEF Token
    <3> QED
      BY <1>3, <3>1, <3>2
  <2>5. t.by \in {"cookie", "header"} /\ t.since \in Nat /\ t.born \in Nat
    BY <2>3 DEF Token
  <2>6. \/ owner[t.address] = Nobody
        \/ ~keyKept /\ t.born < restarts
        \/ t.by = "header" /\ clock >= t.since + SessionLife
    <3> HIDE DEF t
    <3> QED
      BY <1>2, <1>3, <1>6, <2>4, <2>5 DEF VerifyToken, Expires
  <2> QED
    BY <1>1, <1>2, <1>6, <2>1, <2>2, <2>6, PageInv
<1> QED
  BY <1>4, <1>5, <1>6

(* The handler looks at the same token.                                     *)
LEMMA RenderInv ==
  ASSUME SessionsIInv, NEW v \in Browsers, Render(v)
  PROVE  SessionsIInv'
<1> DEFINE t == page[v].sent
           h == IF t # NoToken /\ VerifyToken(t) THEN EntityOf(t) ELSE Nobody
           p == [page[v] EXCEPT !.at = "shown", !.header = h]
<1>1. page[v].at = "answered" /\ UNCHANGED <<vars, owner, token>>
  BY DEF Render
<1>2. page[v] \in Page
  BY DEF SessionsIInv, SessionsTypeOK
<1>3. page' = [page EXCEPT ![v] = p]
  BY DEF Render, EntityFromRequest
<1>4. h \in Users \cup {Nobody}
  <2>1. t # NoToken => t \in Token
    BY <1>2 DEF Page
  <2> QED
    BY <2>1 DEF EntityOf, Token, SessionsIInv, SessionsTypeOK
<1>5. h # Nobody => page[v].as = h
  BY <1>1 DEF SessionsIInv, AnswersTrue
<1>6. t # NoToken => t.born <= restarts
  BY DEF SessionsIInv, TokensBorn
<1> HIDE DEF h
<1>7. p \in Page /\ p.at = "shown" /\ p.sent = t /\ p.as = page[v].as /\ p.header = h
  BY <1>2, <1>4 DEF Page
<1> HIDE DEF p
<1> QED
  BY <1>1, <1>3, <1>5, <1>6, <1>7, PageInv

-----------------------------------------------------------------------------

(* A start: who keeps a token keeps an older one, and no page is left.      *)
LEMMA StartAgainInv ==
  ASSUME SessionsIInv, StartAgain
  PROVE  SessionsIInv'
<1>1. /\ owner' \in [Addresses -> Users \cup {Nobody}]
      /\ page' = [b \in Browsers |-> NoPage] /\ token' = token /\ restarts' = restarts + 1
  BY OwnersTyped DEF StartAgain, Restart
<1>2. IInv'
  BY NextInv DEF StartAgain, Next, SessionsIInv
<1>3. NoPage \in Page /\ NoPage.at = "none" /\ NoPage.sent = NoToken
  BY DEF NoPage, Page
<1>4. SessionsTypeOK'
  BY <1>1, <1>2, <1>3 DEF SessionsIInv, SessionsTypeOK, IInv
<1>5. TokensBorn'
  <2> SUFFICES ASSUME NEW v \in Browsers, token[v] # NoToken PROVE token[v].born <= restarts'
    BY <1>1, <1>3 DEF TokensBorn
  <2>1. token[v].born \in Nat /\ token[v].born <= restarts /\ restarts \in Nat
    BY DEF SessionsIInv, SessionsTypeOK, Token, TokensBorn, IInv, TypeOK
  <2> QED
    BY <1>1, <2>1
<1> QED
  BY <1>1, <1>2, <1>3, <1>4, <1>5 DEF SessionsIInv, AnswersTrue, FailuresSent, HeadersTrue, FailuresJustified

LEMMA SessionsNextInv == SessionsIInv /\ [SessionsNext]_sessionVars => SessionsIInv'
<1> SUFFICES ASSUME SessionsIInv, [SessionsNext]_sessionVars PROVE SessionsIInv'
  OBVIOUS
<1>1. CASE UNCHANGED sessionVars
  <2>1. UNCHANGED vars /\ UNCHANGED <<owner, token, page, clock, restarts, keyKept>>
    BY <1>1 DEF sessionVars, vars
  <2>2. IInv' /\ clock' >= clock
    BY <2>1, NextInv DEF SessionsIInv, IInv, TypeOK
  <2> QED
    BY <2>1, <2>2, PagesKept
<1>2. CASE SessionsNext
  BY <1>2, LinksStepInv, SignInInv, SignOutInv, AuthenticateInv, RenderInv, StartAgainInv DEF SessionsNext
<1> QED
  BY <1>1, <1>2

(* The inductive invariant of links, tokens and pages together.             *)
THEOREM SessionsInvariance == SessionsSpec => []SessionsIInv
BY SessionsInitInv, SessionsNextInv, PTL DEF SessionsSpec

(* A page that says who is signed in shows what that user may see, however  *)
(* tokens run out and visitors sign in and out while it is made             *)
(* (dashboard.go verifies the token a second time).                         *)
THEOREM PagesTellWho == SessionsSpec => []HeadersTrue
<1>1. SessionsIInv => HeadersTrue
  BY DEF SessionsIInv
<1> QED
  BY <1>1, SessionsInvariance, PTL

(* No page of a browser fails for a token that ran out, if a cookie does    *)
(* not live longer than its token.                                          *)
THEOREM PagesFailForAReason == SessionsSpec => []FailuresJustified
<1>1. SessionsIInv => FailuresJustified
  BY DEF SessionsIInv
<1> QED
  BY <1>1, SessionsInvariance, PTL

(* A mailed link gives at most one session also with tokens and pages       *)
(* around it.                                                               *)
THEOREM OneSessionPerMail == SessionsSpec => []SingleUse
<1>1. SessionsIInv => SingleUse
  BY DEF SessionsIInv, IInv
<1> QED
  BY <1>1, SessionsInvariance, PTL

(* Whatever happens around the links, they behave as MagicLinks says: every  *)
(* theorem about a link holds where visitors sign in and out.                *)
THEOREM LinksBehave == SessionsSpec => Spec
<1>1. SessionsInit => Init
  BY DEF SessionsInit
<1>2. [SessionsNext]_sessionVars => [Next]_vars
  <2> SUFFICES ASSUME [SessionsNext]_sessionVars PROVE [Next]_vars
    OBVIOUS
  <2>1. CASE Send \/ Verify \/ TimePasses \/ StartAgain
    BY <2>1 DEF Send, Verify, TimePasses, StartAgain, Next
  <2>2. CASE \E v \in Visitors : SignIn(v)
    BY <2>2 DEF SignIn, Next
  <2>3. CASE \E v \in Browsers : SignOut(v) \/ Authenticate(v) \/ Render(v)
    BY <2>3 DEF SignOut, Authenticate, Render
  <2>4. CASE UNCHANGED sessionVars
    BY <2>4 DEF sessionVars
  <2> QED
    BY <2>1, <2>2, <2>3, <2>4 DEF SessionsNext
<1> QED
  BY <1>1, <1>2, PTL DEF SessionsSpec, Spec

(* Nor does signing in and out lose a link.                                  *)
THEOREM RefusedForAReasonToo == SessionsSpec => RefusalsJustified
BY LinksBehave, RefusedForAReason
=============================================================================
