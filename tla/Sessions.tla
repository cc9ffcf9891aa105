------------------------------ MODULE Sessions ------------------------------
(***************************************************************************)
(* What a session token is good for (authn.go, interceptor.go, auth.go,    *)
(* dashboard.go).  A visitor who verified a link gets a token, in a cookie *)
(* that his browser gives up long before the token expires, or, from the   *)
(* REST call, to keep himself.  A page of the dashboard has it verified    *)
(* twice: by the service that answers its query, and by the handler, which *)
(* says at its top who is signed in.  Between the two time passes, and the *)
(* visitor may sign in or out in another window.                           *)
(*                                                                         *)
(* At every start the process makes its map from addresses to users out of *)
(* the configured users, in the order of a Go map.                         *)
(***************************************************************************)
EXTENDS MagicLinks

CONSTANTS
  AddressOf,     \* the address each link is mailed to
  Browsers,      \* the visitors whose pages are followed
  Users,
  Config,        \* the addresses of each user, in what configurations there are
  Nobody,        \* no user
  SessionLife,   \* how long a session token is valid...
  CookieLife     \* ... and how long a browser keeps it

Addresses == {AddressOf[l] : l \in Links}

ASSUME UsersAssumption ==
  /\ Browsers \subseteq Visitors /\ Nobody \notin Users /\ DOMAIN AddressOf = Links
  /\ Config \subseteq [Users -> SUBSET Addresses]
ASSUME LivesAssumption == CookieLife \in Nat /\ SessionLife \in Nat /\ CookieLife <= SessionLife

VARIABLES
  owner,   \* the user of each address, or Nobody
  token,   \* the token each of them sends
  page     \* how far each page is

sessionVars == <<vars, owner, token, page>>

\* Who holds a token sends it in a cookie or in a header of his own.
NoToken == [address |-> NoLink, since |-> Never, born |-> 0, by |-> "none"]
Token == [address: Addresses, since: Nat, born: 0..MaxRestarts, by: {"cookie", "header"}]

NoPage == [at |-> "none", sent |-> NoToken, as |-> Nobody, header |-> Nobody]
Page == [at: {"none", "answered", "shown", "failed"}, sent: Token \cup {NoToken},
         as: Users \cup {Nobody}, header: Users \cup {Nobody}]

SessionsTypeOK ==
  /\ TypeOK
  /\ owner \in [Addresses -> Users \cup {Nobody}]
  /\ token \in [Browsers -> Token \cup {NoToken}]
  /\ page \in [Browsers -> Page]

\* Two users with one address: the one that comes last has it.
Owners ==
  UNION {{o \in [Addresses -> Users \cup {Nobody}] :
            \A a \in Addresses :
              LET having == {u \in Users : a \in users[u]} IN
                IF having = {} THEN o[a] = Nobody ELSE o[a] \in having} : users \in Config}

SessionsInit ==
  /\ Init
  /\ owner \in Owners
  /\ token = [b \in Browsers |-> NoToken]
  /\ page = [b \in Browsers |-> NoPage]

-----------------------------------------------------------------------------
(* Signing in and out.                                                      *)

\* Only known addresses get a link.
Send ==
  /\ \E l \in Links :
       \/ owner[AddressOf[l]] # Nobody /\ GenerateMagicLink(l)
       \/ SendEmail(l)
  /\ UNCHANGED <<owner, token, page>>

Verify ==
  /\ \E v \in Visitors : (\E l \in Links : Open(v, l)) \/ Parse(v) \/ Validate(v)
  /\ UNCHANGED <<owner, token, page>>

\* By the page, which sets a cookie, or by the REST call, which does not: the
\* function that would set it is made and thrown away.
SignIn(v) ==
  /\ IssueSessionToken(v)
  /\ IF v \in Browsers
       THEN \E by \in {"cookie", "header"} :
              token' = [token EXCEPT ![v] =
                [address |-> AddressOf[link[v]], since |-> clock, born |-> restarts, by |-> by]]
       ELSE UNCHANGED token
  /\ UNCHANGED <<owner, page>>

SignOut(v) ==
  /\ token[v] # NoToken
  /\ token' = [token EXCEPT ![v] = NoToken]
  /\ UNCHANGED <<vars, owner, page>>

-----------------------------------------------------------------------------
(* A page.                                                                  *)

\* A browser has given an old cookie up.
Sent(v) ==
  IF token[v].by = "cookie" /\ clock >= token[v].since + CookieLife THEN NoToken ELSE token[v]

\* Faulty variant: the token lives as long as a link.
ExpiresAsLink(t) == t.since + Lifetime

Expires(t) == t.since + SessionLife

\* The token is not expired, was signed with this key, and its address is
\* somebody's.
VerifyToken(t) ==
  /\ clock < Expires(t)
  /\ keyKept \/ t.born = restarts
  /\ owner[t.address] # Nobody

EntityOf(t) == owner[t.address]

\* The service answers as the user of the token, as nobody if there is none,
\* and not at all if it does not verify.
Authenticate(v) ==
  /\ page[v].at # "answered"
  /\ page' = [page EXCEPT ![v] =
       LET t == Sent(v) IN
         IF t = NoToken THEN [at |-> "answered", sent |-> t, as |-> Nobody, header |-> Nobody]
         ELSE IF VerifyToken(t)
           THEN [at |-> "answered", sent |-> t, as |-> EntityOf(t), header |-> Nobody]
           ELSE [at |-> "failed", sent |-> t, as |-> Nobody, header |-> Nobody]]
  /\ UNCHANGED <<vars, owner, token>>

\* Faulty variant: the page names who is signed in by then.
EntityNow(v) == Sent(v)

EntityFromRequest(v) == page[v].sent

Render(v) ==
  /\ page[v].at = "answered"
  /\ page' = [page EXCEPT ![v].at = "shown",
                          ![v].header = LET t == EntityFromRequest(v) IN
                            IF t # NoToken /\ VerifyToken(t) THEN EntityOf(t) ELSE Nobody]
  /\ UNCHANGED <<vars, owner, token>>

-----------------------------------------------------------------------------

TimePasses == Tick /\ UNCHANGED <<owner, token, page>>

\* Pages that were under way are lost.
StartAgain ==
  /\ Restart
  /\ owner' \in Owners
  /\ page' = [b \in Browsers |-> NoPage]
  /\ UNCHANGED token

SessionsNext ==
  \/ Send \/ Verify \/ TimePasses \/ StartAgain
  \/ \E v \in Visitors : SignIn(v)
  \/ \E v \in Browsers : SignOut(v) \/ Authenticate(v) \/ Render(v)

SessionsSpec == SessionsInit /\ [][SessionsNext]_sessionVars

-----------------------------------------------------------------------------
(* Properties.                                                              *)

(* A page that says who is signed in shows what that user may see, also if  *)
(* the visitor changed, or the token expired, while it was made.            *)
HeadersTrue ==
  \A v \in Browsers :
    page[v].at = "shown" /\ page[v].header # Nobody => page[v].as = page[v].header

(* No page of a browser fails for a token that ran out, for the token       *)
(* outlives its cookie, and a restart that keeps the key and the user fails *)
(* none: either the address is nobody's any more, or the key is gone, or    *)
(* the visitor kept the token himself for too long.                         *)
FailuresJustified ==
  \A v \in Browsers :
    page[v].at = "failed" =>
      \/ owner[page[v].sent.address] = Nobody
      \/ ~keyKept /\ page[v].sent.born < restarts
      \/ page[v].sent.by = "header" /\ clock >= page[v].sent.since + SessionLife

-----------------------------------------------------------------------------
(* The inductive invariant behind both, in named parts.                     *)

\* Nobody holds a token of a run that has not begun.
TokensBorn ==
  \A v \in Browsers :
    /\ token[v] # NoToken => token[v].born <= restarts
    /\ page[v].sent # NoToken => page[v].sent.born <= restarts

\* What a page was answered as is what its token is good for until the next
\* start, which no page survives.
AnswersTrue ==
  \A v \in Browsers :
    page[v].at = "answered" /\ page[v].sent # NoToken => page[v].as = EntityOf(page[v].sent)

\* Only what was sent can fail.
FailuresSent == \A v \in Browsers : page[v].at = "failed" => page[v].sent # NoToken

SessionsIInv ==
  /\ IInv /\ SessionsTypeOK
  /\ TokensBorn /\ AnswersTrue /\ FailuresSent
  /\ HeadersTrue /\ FailuresJustified

-----------------------------------------------------------------------------
(* Statements that this code does not meet (README).                        *)

(* A visitor who is not signed in for the service is shown the dashboard    *)
(* that everybody sees: "May return unauthenticated context"                *)
(* (interceptor.go:28).                                                     *)
StaleTokensAreNoTokens == \A v \in Browsers : page[v].at # "failed"
=============================================================================
