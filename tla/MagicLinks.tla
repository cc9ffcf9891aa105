----------------------------- MODULE MagicLinks -----------------------------
(***************************************************************************)
(* Login by mailed links (magiclink_svc.go, authn.go, magiclink.go).  A    *)
(* link is a signed token, and an entry in a map of the process that makes *)
(* it good for one use.  A link that was mailed may be opened by several   *)
(* visitors at once: the button, the copied address, and the REST call     *)
(* lead to the same three steps.  Time counts in units of which a link     *)
(* lives for a few.                                                        *)
(***************************************************************************)
EXTENDS Integers, FiniteSets

CONSTANTS
  Links,       \* links that may ever be generated
  Visitors,    \* requests that verify a link
  NoLink,
  Lifetime,    \* how long a link is valid
  MaxTime,     \* bound on the time that is told apart
  MaxRestarts  \* bound on the restarts

ASSUME NoLinkAssumption == NoLink \notin Links
ASSUME BoundsAssumption == Lifetime \in Nat \ {0} /\ MaxTime \in Nat /\ MaxRestarts \in Nat

VARIABLES
  clock,
  restarts,    \* how often the process was started again
  keyKept,     \* whether the web key is loaded from a file
  expires,     \* when each token expires, or Never if there is none yet
  born,        \* the restarts there had been when it was signed
  entries,     \* the map of the link store: links that were not used yet
  unsent,      \* links about to be mailed
  mailed,      \* links that were delivered
  pc, link,    \* where each visitor is, and with which link
  sessions     \* how many sessions were issued for each link

tokens == <<expires, born>>
visits == <<pc, link>>
vars == <<clock, restarts, keyKept, tokens, entries, unsent, mailed, visits, sessions>>

Never == -1
PCs == {"idle", "parse", "validate", "issue", "refused"}

TypeOK ==
  /\ clock \in 0..MaxTime /\ restarts \in 0..MaxRestarts /\ keyKept \in BOOLEAN
  /\ expires \in [Links -> {Never} \cup Nat] /\ born \in [Links -> 0..MaxRestarts]
  /\ entries \subseteq Links /\ unsent \subseteq Links /\ mailed \subseteq Links
  /\ pc \in [Visitors -> PCs] /\ link \in [Visitors -> Links \cup {NoLink}]
  /\ sessions \in [Links -> Nat]

Init ==
  /\ clock = 0 /\ restarts = 0 /\ keyKept \in BOOLEAN
  /\ expires = [l \in Links |-> Never] /\ born = [l \in Links |-> 0]
  /\ entries = {} /\ unsent = {} /\ mailed = {}
  /\ pc = [v \in Visitors |-> "idle"] /\ link = [v \in Visitors |-> NoLink]
  /\ sessions = [l \in Links |-> 0]

-----------------------------------------------------------------------------
(* Sending.                                                                 *)

\* Faulty variant: the link is recorded only if its key will be kept.
GenerateUnrecorded(l) ==
  /\ expires[l] = Never
  /\ expires' = [expires EXCEPT ![l] = clock + Lifetime]
  /\ born' = [born EXCEPT ![l] = restarts]
  /\ entries' = IF keyKept THEN entries \cup {l} ELSE entries
  /\ unsent' = unsent \cup {l}
  /\ UNCHANGED <<clock, restarts, keyKept, mailed, visits, sessions>>

\* A known address asks for a link; the token is signed and recorded.
GenerateMagicLink(l) ==
  /\ expires[l] = Never
  /\ expires' = [expires EXCEPT ![l] = clock + Lifetime]
  /\ born' = [born EXCEPT ![l] = restarts]
  /\ entries' = entries \cup {l}
  /\ unsent' = unsent \cup {l}
  /\ UNCHANGED <<clock, restarts, keyKept, mailed, visits, sessions>>

\* Sending may fail; the link stays recorded.
SendEmail(l) ==
  /\ l \in unsent
  /\ unsent' = unsent \ {l}
  /\ mailed' \in {mailed, mailed \cup {l}}
  /\ UNCHANGED <<clock, restarts, keyKept, tokens, entries, visits, sessions>>

-----------------------------------------------------------------------------
(* Verifying.                                                               *)

Goto(v, label) == pc' = [pc EXCEPT ![v] = label]

Open(v, l) ==
  /\ pc[v] \in {"idle", "refused"} /\ l \in mailed
  /\ Goto(v, "parse")
  /\ link' = [link EXCEPT ![v] = l]
  /\ UNCHANGED <<clock, restarts, keyKept, tokens, entries, unsent, mailed, sessions>>

\* The process that signed the token had the same web key.
Signed(l) == keyKept \/ born[l] = restarts

\* The token's signature and expiry.
Parse(v) ==
  /\ pc[v] = "parse"
  /\ Goto(v, IF Signed(link[v]) /\ clock < expires[link[v]] THEN "validate" ELSE "refused")
  /\ UNCHANGED <<clock, restarts, keyKept, tokens, entries, unsent, mailed, link, sessions>>

\* Faulty variant: the entry is marked in a copy and stays.
ValidateKeeps(v) ==
  /\ pc[v] = "validate"
  /\ Goto(v, IF link[v] \in entries /\ clock <= expires[link[v]] THEN "issue" ELSE "refused")
  /\ UNCHANGED <<clock, restarts, keyKept, tokens, entries, unsent, mailed, link, sessions>>

\* The entry, under the store's mutex: it is used up if it is there and valid.
Validate(v) ==
  /\ pc[v] = "validate"
  /\ IF link[v] \in entries /\ clock <= expires[link[v]]
       THEN entries' = entries \ {link[v]} /\ Goto(v, "issue")
       ELSE UNCHANGED entries /\ Goto(v, "refused")
  /\ UNCHANGED <<clock, restarts, keyKept, tokens, unsent, mailed, link, sessions>>

IssueSessionToken(v) ==
  /\ pc[v] = "issue"
  /\ sessions' = [sessions EXCEPT ![link[v]] = @ + 1]
  /\ Goto(v, "idle")
  /\ link' = [link EXCEPT ![v] = NoLink]
  /\ UNCHANGED <<clock, restarts, keyKept, tokens, entries, unsent, mailed>>

-----------------------------------------------------------------------------

Tick ==
  /\ clock < MaxTime
  /\ clock' = clock + 1
  /\ UNCHANGED <<restarts, keyKept, tokens, entries, unsent, mailed, visits, sessions>>

\* The process ends, and with it the map and every call; and starts again.
Restart ==
  /\ restarts < MaxRestarts
  /\ restarts' = restarts + 1
  /\ entries' = {} /\ unsent' = {}
  /\ pc' = [v \in Visitors |-> "idle"] /\ link' = [v \in Visitors |-> NoLink]
  /\ UNCHANGED <<clock, keyKept, tokens, mailed, sessions>>

Next ==
  \/ \E l \in Links : GenerateMagicLink(l) \/ SendEmail(l)
  \/ \E v \in Visitors, l \in Links : Open(v, l)
  \/ \E v \in Visitors : Parse(v) \/ Validate(v) \/ IssueSessionToken(v)
  \/ Tick \/ Restart

Spec == Init /\ [][Next]_vars

-----------------------------------------------------------------------------
(* Properties.                                                              *)

(* A link gives at most one session, however many visitors verify it at the *)
(* same time and wherever restarts fall                                     *)
(* (ParseAndValidateMagicLink "enforces single-use", authn.go:291).         *)
SingleUse == \A l \in Links : sessions[l] <= 1

(* What keeps it so: of a link that is still in the map, or that a visitor  *)
(* just used up, no session was issued, and no two visitors used it up.     *)
UsedOnce ==
  /\ \A l \in Links : sessions[l] # 0 => expires[l] # Never
  /\ \A l \in entries : sessions[l] = 0 /\ expires[l] # Never
  /\ \A v \in Visitors :
       /\ pc[v] # "idle" => link[v] \in Links /\ expires[link[v]] # Never
       /\ pc[v] = "issue" => sessions[link[v]] = 0 /\ link[v] \notin entries
  /\ \A u, v \in Visitors : pc[u] = "issue" /\ pc[v] = "issue" /\ link[u] = link[v] => u = v

Delivered == \A l \in mailed \cup unsent : expires[l] # Never

IInv == TypeOK /\ UsedOnce /\ Delivered /\ SingleUse

Used(l) ==
  \/ sessions[l] > 0
  \/ \E v \in Visitors : pc[v] = "issue" /\ link[v] = l

\* A link that the running process has signed is in its map until it is used.
Recorded ==
  \A l \in Links :
    /\ born[l] <= restarts
    /\ expires[l] # Never /\ born[l] = restarts => l \in entries \/ Used(l)

Refuses(v) == pc[v] \in {"parse", "validate"} /\ pc'[v] = "refused"

(* A mailed link is refused for one of three reasons only: it expired, it   *)
(* was used, or the process was started again since it was signed.          *)
RefusalsJustified ==
  [][\A v \in Visitors : Refuses(v) =>
       LET l == link[v] IN clock >= expires[l] \/ Used(l) \/ restarts > born[l]]_vars

-----------------------------------------------------------------------------
(* Statements of the documentation that this code does not meet (README).   *)

(* "This link is valid for 15 minutes" (magiclink_svc.go:70), and a page    *)
(* that refuses it says that it "has already been used or has expired"      *)
(* (web/handlers/auth.go:67).                                               *)
ValidUntilUsedOrExpired ==
  [][\A v \in Visitors : Refuses(v) =>
       LET l == link[v] IN clock >= expires[l] \/ Used(l)]_vars
=============================================================================
