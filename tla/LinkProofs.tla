------------------------------ MODULE LinkProofs ------------------------------
(***************************************************************************)
(* Proofs about Link, for any number of browsers, requests, links, users,  *)
(* accounts, repositories and nonces.                                      *)
(*                                                                         *)
(* The inductive invariant follows one attempt: whatever carries a nonce   *)
(* towards the Discord callback, a cookie in a browser or an answer on its *)
(* way there, carries one that the server made for that browser after the  *)
(* link's own user had signed in there with GitHub.                        *)
(*                                                                         *)
(* A second one, FreshInv, says that no nonce is in two places: what a     *)
(* browser holds, or an answer is about to set, has not been cleared.      *)
(***************************************************************************)
EXTENDS Link, TLAPS

Redirects == [to : {"github", "discord"}, browser : Browsers, link : Links]
RequestType == [at : Phases, browser : Browsers \cup {NoBrowser},
                state : Nonces \cup {None}, cookie : Nonces \cup {None}]

\* Nonce n was made for browser b, in which its link's user has signed in.
Sound(n, b) ==
    /\ n \in Nonces
    /\ redirects[n].to = "discord"
    /\ redirects[n].browser = b
    /\ Author[redirects[n].link] \in proved[b]

HandoffSound == \A b \in Browsers : handoff[b] # None => Sound(handoff[b], b)

\* What a request that has begun carries.
Carried(q) ==
    /\ q.at # "idle" => q.browser \in Browsers
    /\ q.at \in {"handing", "resuming", "authorizing"} => Sound(q.cookie, q.browser)
    /\ q.at = "authorizing" => q.state = q.cookie

RequestsSound == \A r \in Requests : Carried(req[r])

AttemptInv == TypeOK /\ HandoffSound /\ RequestsSound

-----------------------------------------------------------------------------
\* Issue appends: the redirects made before keep their nonces.
LEMMA IssueExtends ==
    ASSUME redirects \in Seq(Redirects),
           NEW to \in {"github", "discord"}, NEW b \in Browsers, NEW l \in Links,
           Issue(to, b, l)
    PROVE  /\ redirects' \in Seq(Redirects)
           /\ Nonces \subseteq Nonces' /\ NewNonce \in Nonces' /\ NewNonce # None
           /\ \A n \in Nonces : redirects'[n] = redirects[n]
           /\ redirects'[NewNonce] = [to |-> to, browser |-> b, link |-> l]
<1> DEFINE red == [to |-> to, browser |-> b, link |-> l]
<1>1. red \in Redirects
  BY DEF Redirects
<1>2. redirects' = Append(redirects, red)
  BY DEF Issue
<1>3. /\ redirects' \in Seq(Redirects)
      /\ Len(redirects') = Len(redirects) + 1
      /\ Len(redirects) \in Nat
      /\ \A n \in 1 .. Len(redirects) : redirects'[n] = redirects[n]
      /\ redirects'[Len(redirects) + 1] = red
  <2> HIDE DEF red
  <2> QED BY <1>1, <1>2
<1> QED BY <1>3 DEF Nonces, NewNonce, None

\* No step forgets a redirect or a sign-in.
Grows ==
    /\ Nonces \subseteq Nonces'
    /\ \A n \in Nonces : redirects'[n] = redirects[n]
    /\ \A b \in Browsers : proved[b] \subseteq proved'[b]

LEMMA StillSound ==
    ASSUME Grows, NEW n, NEW b \in Browsers, Sound(n, b)
    PROVE  Sound(n, b)'
<1>1. n \in Nonces' /\ redirects'[n] = redirects[n]
  BY DEF Grows, Sound
<1>2. proved[b] \subseteq proved'[b]
  BY DEF Grows
<1> QED BY <1>1, <1>2 DEF Sound

LEMMA StillCarried ==
    ASSUME Grows, NEW q, Carried(q)
    PROVE  Carried(q)'
<1>1. q.at # "idle" => q.browser \in Browsers
  BY DEF Carried
<1>2. q.at \in {"handing", "resuming", "authorizing"} => Sound(q.cookie, q.browser)'
  BY <1>1, StillSound DEF Carried
<1> QED BY <1>1, <1>2 DEF Carried

\* A step that changes one request, or the handoff cookie of one browser.
LEMMA OneRequest ==
    ASSUME Grows, RequestsSound, DOMAIN req = Requests,
           NEW r \in Requests, NEW q, req' = [req EXCEPT ![r] = q], Carried(q)'
    PROVE  RequestsSound'
<1> SUFFICES ASSUME NEW r2 \in Requests, NEW q2, q2 = req'[r2] PROVE Carried(q2)'
  BY DEF RequestsSound, Carried, Sound
<1>1. CASE r2 = r
  BY <1>1
<1>2. CASE r2 # r
  BY <1>2, StillCarried DEF RequestsSound
<1> QED BY <1>1, <1>2

LEMMA OneHandoff ==
    ASSUME Grows, HandoffSound, DOMAIN handoff = Browsers,
           NEW b \in Browsers, NEW n, handoff' = [handoff EXCEPT ![b] = n],
           n # None => Sound(n, b)'
    PROVE  HandoffSound'
<1> SUFFICES ASSUME NEW b2 \in Browsers, NEW n2, n2 = handoff'[b2], n2 # None
             PROVE  Sound(n2, b2)'
  BY DEF HandoffSound, Sound
<1>1. CASE b2 = b
  BY <1>1
<1>2. CASE b2 # b
  BY <1>2, StillSound DEF HandoffSound
<1> QED BY <1>1, <1>2

LEMMA SameRequests ==
    ASSUME Grows, RequestsSound, UNCHANGED req
    PROVE  RequestsSound'
<1> SUFFICES ASSUME NEW r \in Requests, NEW q, q = req'[r] PROVE Carried(q)'
  BY DEF RequestsSound, Carried, Sound
<1> QED BY StillCarried DEF RequestsSound

LEMMA SameHandoff ==
    ASSUME Grows, HandoffSound, UNCHANGED handoff
    PROVE  HandoffSound'
<1> SUFFICES ASSUME NEW b \in Browsers, NEW n, n = handoff'[b], n # None PROVE Sound(n, b)'
  BY DEF HandoffSound, Sound
<1> QED BY StillSound DEF HandoffSound

\* What has its type keeps it while redirects are appended.
LEMMA TypesGrow ==
    ASSUME Grows, TypeOK
    PROVE  /\ known \subseteq Nonces'
           /\ stateCookie \in [Browsers -> NoncesTo("github")' \cup {None}]
           /\ handoff \in [Browsers -> NoncesTo("discord")' \cup {None}]
           /\ req \in [Requests -> RequestType']
           /\ spent \subseteq Nonces' \cup {None}
<1>1. Nonces \subseteq Nonces'
  BY DEF Grows
<1>2. NoncesTo("github") \subseteq NoncesTo("github")' /\ NoncesTo("discord") \subseteq NoncesTo("discord")'
  BY DEF Grows, NoncesTo
<1>3. RequestType \subseteq RequestType'
  BY <1>1 DEF RequestType
<1> QED BY <1>1, <1>2, <1>3 DEF TypeOK, CookiesOK, RequestType

\* Steps that make no redirect and record no sign-in.
LEMMA NothingNew ==
    ASSUME UNCHANGED <<redirects, proved>>
    PROVE  Grows
BY DEF Grows, Nonces

\* A request that has carried nothing, or carries nothing any more.
LEMMA IdleCarried == Carried(Idle)'
BY DEF Carried, Idle

LEMMA InitSound == Init => AttemptInv
<1> SUFFICES ASSUME Init PROVE AttemptInv
  OBVIOUS
<1> USE LinkAssumption DEF Init
<1>1. TypeOK
  BY DEF TypeOK, CookiesOK, Nonces, Idle, Phases, None
<1>2. HandoffSound /\ RequestsSound
  BY DEF HandoffSound, RequestsSound, Carried, Idle, None
<1> QED BY <1>1, <1>2 DEF AttemptInv

-----------------------------------------------------------------------------
(***************************************************************************)
(* One lemma per action: it preserves the invariant.                       *)
(***************************************************************************)

LEMMA RedirectAt ==
    ASSUME TypeOK, NEW n \in Nonces
    PROVE  redirects[n] \in Redirects /\ redirects[n].link \in Links
<1>1. redirects \in Seq(Redirects)
  BY DEF TypeOK, Redirects
<1>2. redirects[n] \in Redirects
  BY <1>1 DEF Nonces
<1> QED BY <1>2 DEF Redirects

LEMMA OpenLinkStep ==
    ASSUME AttemptInv, NEW b \in Browsers, NEW l \in Links, OpenLink(b, l)
    PROVE  AttemptInv'
<1> USE DEF OpenLink
<1>1. /\ redirects' \in Seq(Redirects)
      /\ Nonces \subseteq Nonces' /\ NewNonce \in Nonces' /\ NewNonce # None
      /\ \A n \in Nonces : redirects'[n] = redirects[n]
      /\ redirects'[NewNonce] = [to |-> "github", browser |-> b, link |-> l]
  BY IssueExtends DEF AttemptInv, TypeOK, Redirects
<1>2. Grows
  BY <1>1 DEF Grows
<1>3. NewNonce \in NoncesTo("github")'
  BY <1>1 DEF NoncesTo
<1>4. CookiesOK'
  BY <1>2, <1>3, TypesGrow DEF AttemptInv, CookiesOK
<1>5. TypeOK'
  BY <1>1, <1>2, <1>4, TypesGrow DEF AttemptInv, TypeOK, RequestType, Redirects
<1>6. HandoffSound' /\ RequestsSound'
  BY <1>2, SameHandoff, SameRequests DEF AttemptInv
<1> QED BY <1>5, <1>6 DEF AttemptInv

LEMMA GitHubCallbackStep ==
    ASSUME AttemptInv, NEW r \in Requests, NEW b \in Browsers, NEW n \in Nonces,
           NEW u \in Users, GitHubCallback(r, b, n, u)
    PROVE  AttemptInv'
<1> USE DEF GitHubCallback
<1> DEFINE l == redirects[n].link
<1>1. PICK new : new = NewNonce
  OBVIOUS
<1> DEFINE q == [at |-> "handing", browser |-> b, state |-> n, cookie |-> new]
<1>2. /\ redirects' \in Seq(Redirects)
      /\ Nonces \subseteq Nonces' /\ new \in Nonces' /\ new # None
      /\ \A k \in Nonces : redirects'[k] = redirects[k]
      /\ redirects'[new] = [to |-> "discord", browser |-> b, link |-> l]
  BY <1>1, RedirectAt, IssueExtends DEF AttemptInv, TypeOK, Redirects
<1>3. /\ proved' \in [Browsers -> SUBSET Users]
      /\ Author[l] \in proved'[b]
      /\ \A c \in Browsers : proved[c] \subseteq proved'[c]
  BY DEF AttemptInv, TypeOK
<1>4. Grows
  BY <1>2, <1>3 DEF Grows
<1>5. req' = [req EXCEPT ![r] = q] /\ q \in RequestType'
  BY <1>1, <1>2 DEF Goto, RequestType, Phases
<1>6. CookiesOK'
  BY <1>4, TypesGrow DEF AttemptInv, CookiesOK, cookies
<1>7. TypeOK'
  BY <1>2, <1>3, <1>4, <1>5, <1>6, TypesGrow DEF AttemptInv, TypeOK, RequestType, Redirects, cookies
<1>8. Sound(new, b)'
  BY <1>2, <1>3 DEF Sound
<1>9. RequestsSound'
  <2>1. Carried(q)'
    BY <1>8 DEF Carried
  <2>2. DOMAIN req = Requests
    BY DEF AttemptInv, TypeOK
  <2> HIDE DEF q
  <2> QED BY <1>4, <1>5, <2>1, <2>2, OneRequest DEF AttemptInv
<1>10. HandoffSound'
  BY <1>4, SameHandoff DEF AttemptInv, cookies
<1> QED BY <1>7, <1>9, <1>10 DEF AttemptInv

\* Steps that make no redirect and record no sign-in: request r goes on to q,
\* whose browser, state and cookie the request had, or to nothing.
LEMMA QuietStep ==
    ASSUME AttemptInv, UNCHANGED <<redirects, proved>>,
           NEW r \in Requests, NEW q \in RequestType, req' = [req EXCEPT ![r] = q],
           Carried(q)
    PROVE  Grows /\ req' \in [Requests -> RequestType'] /\ RequestsSound'
<1>1. Grows
  BY NothingNew
<1>2. req' \in [Requests -> RequestType']
  BY <1>1, TypesGrow DEF AttemptInv, RequestType, Grows
<1>3. Carried(q)'
  BY <1>1, StillCarried
<1>4. RequestsSound'
  BY <1>1, <1>3, OneRequest DEF AttemptInv, TypeOK
<1> QED BY <1>1, <1>2, <1>4

LEMMA EndStep ==
    ASSUME AttemptInv, UNCHANGED <<redirects, proved>>, NEW r \in Requests, End(r)
    PROVE  Grows /\ req' \in [Requests -> RequestType'] /\ RequestsSound'
<1>1. Idle \in RequestType /\ Carried(Idle)
  BY DEF Idle, RequestType, Phases, Carried
<1> HIDE DEF Idle
<1> QED BY <1>1, QuietStep DEF End

\* The rest of TypeOK, for a step that changes nothing but cookies and requests.
LEMMA QuietTypes ==
    ASSUME AttemptInv, Grows, UNCHANGED <<redirects, connection, proved>>,
           known' \subseteq Nonces, CookiesOK', spent' \subseteq Nonces \cup {None},
           req' \in [Requests -> RequestType']
    PROVE  TypeOK'
BY DEF AttemptInv, TypeOK, RequestType, Grows

LEMMA RejectStep ==
    ASSUME AttemptInv, NEW r \in Requests, NEW b \in Browsers, NEW n \in Nonces,
           RejectGitHubCallback(r, b, n)
    PROVE  AttemptInv'
<1> USE DEF RejectGitHubCallback, cookies
<1> DEFINE q == [at |-> "rejecting", browser |-> b, state |-> n, cookie |-> None]
<1>1. q \in RequestType /\ Carried(q) /\ req' = [req EXCEPT ![r] = q]
  BY DEF RequestType, Phases, Carried, Goto
<1>2. Grows /\ req' \in [Requests -> RequestType'] /\ RequestsSound'
  <2> HIDE DEF q
  <2> QED BY <1>1, QuietStep
<1>3. CookiesOK'
  BY <1>2, TypesGrow DEF AttemptInv, CookiesOK
<1>4. TypeOK'
  BY <1>2, <1>3, QuietTypes DEF AttemptInv, TypeOK
<1>5. HandoffSound'
  BY <1>2, SameHandoff DEF AttemptInv
<1> QED BY <1>2, <1>4, <1>5 DEF AttemptInv

LEMMA ClearStep ==
    ASSUME AttemptInv, NEW b \in Browsers, ClearStateCookie(b), UNCHANGED redirects
    PROVE  /\ stateCookie' \in [Browsers -> NoncesTo("github")' \cup {None}]
           /\ spent' \subseteq Nonces \cup {None}
<1>1. NoncesTo("github")' = NoncesTo("github") /\ NoncesTo("github") \subseteq Nonces
  BY DEF NoncesTo, Nonces
<1> QED BY <1>1 DEF AttemptInv, TypeOK, CookiesOK, ClearStateCookie

LEMMA AnswerRejectedStep ==
    ASSUME AttemptInv, NEW r \in Requests, AnswerRejected(r)
    PROVE  AttemptInv'
<1> USE DEF AnswerRejected
<1> DEFINE b == req[r].browser
<1>1. b \in Browsers
  BY DEF AttemptInv, RequestsSound, Carried
<1>2. Grows /\ req' \in [Requests -> RequestType'] /\ RequestsSound'
  BY EndStep
<1>3. CookiesOK' /\ spent' \subseteq Nonces \cup {None}
  BY <1>1, <1>2, TypesGrow, ClearStep DEF AttemptInv, CookiesOK
<1>4. TypeOK'
  BY <1>2, <1>3, QuietTypes DEF AttemptInv, TypeOK
<1>5. HandoffSound'
  BY <1>2, SameHandoff DEF AttemptInv
<1> QED BY <1>2, <1>4, <1>5 DEF AttemptInv

\* An answer that sets the handoff cookie of its browser.
LEMMA SetHandoff ==
    ASSUME AttemptInv, Grows, UNCHANGED redirects,
           NEW r \in Requests, req[r].at \in {"handing", "resuming"},
           handoff' = [handoff EXCEPT ![req[r].browser] = req[r].cookie]
    PROVE  /\ req[r].browser \in Browsers /\ req[r].cookie \in Nonces
           /\ handoff' \in [Browsers -> NoncesTo("discord")' \cup {None}]
           /\ HandoffSound'
<1>1. PICK b, n : b = req[r].browser /\ n = req[r].cookie
  OBVIOUS
<1>2. b \in Browsers /\ Sound(n, b)
  BY <1>1 DEF AttemptInv, RequestsSound, Carried
<1>3. n \in Nonces /\ n \in NoncesTo("discord")'
  BY <1>2 DEF Sound, NoncesTo, Nonces
<1>4. handoff \in [Browsers -> NoncesTo("discord")' \cup {None}]
  BY TypesGrow DEF AttemptInv
<1>5. HandoffSound'
  BY <1>1, <1>2, <1>4, StillSound, OneHandoff DEF AttemptInv
<1> QED BY <1>1, <1>2, <1>3, <1>4, <1>5

LEMMA AnswerIdentifiedStep ==
    ASSUME AttemptInv, NEW r \in Requests, AnswerIdentified(r)
    PROVE  AttemptInv'
<1> USE DEF AnswerIdentified
<1>1. Grows /\ req' \in [Requests -> RequestType'] /\ RequestsSound'
  BY EndStep
<1>2. /\ req[r].browser \in Browsers /\ req[r].cookie \in Nonces
      /\ handoff' \in [Browsers -> NoncesTo("discord")' \cup {None}]
      /\ HandoffSound'
  BY <1>1, SetHandoff
<1>3. CookiesOK' /\ spent' \subseteq Nonces \cup {None}
  BY <1>2, ClearStep DEF CookiesOK
<1>4. known' \subseteq Nonces
  BY <1>2 DEF AttemptInv, TypeOK
<1>5. TypeOK'
  BY <1>1, <1>3, <1>4, QuietTypes
<1> QED BY <1>1, <1>2, <1>5 DEF AttemptInv

LEMMA AnswerResumeStep ==
    ASSUME AttemptInv, NEW r \in Requests, AnswerResume(r)
    PROVE  AttemptInv'
<1> USE DEF AnswerResume
<1>1. Grows /\ req' \in [Requests -> RequestType'] /\ RequestsSound'
  BY EndStep
<1>2. /\ req[r].browser \in Browsers /\ req[r].cookie \in Nonces
      /\ handoff' \in [Browsers -> NoncesTo("discord")' \cup {None}]
      /\ HandoffSound'
  BY <1>1, SetHandoff
<1>3. CookiesOK'
  BY <1>1, <1>2, TypesGrow DEF AttemptInv, CookiesOK
<1>4. known' \subseteq Nonces /\ spent' \subseteq Nonces \cup {None}
  BY <1>2 DEF AttemptInv, TypeOK
<1>5. TypeOK'
  BY <1>1, <1>3, <1>4, QuietTypes
<1> QED BY <1>1, <1>2, <1>5 DEF AttemptInv

\* A step that clears the handoff cookie of a browser.
LEMMA ClearHandoff ==
    ASSUME AttemptInv, Grows, NEW b \in Browsers, handoff' = [handoff EXCEPT ![b] = None]
    PROVE  handoff' \in [Browsers -> NoncesTo("discord")' \cup {None}] /\ HandoffSound'
<1>1. handoff \in [Browsers -> NoncesTo("discord")' \cup {None}]
  BY TypesGrow DEF AttemptInv
<1>2. HandoffSound'
  BY <1>1, OneHandoff DEF AttemptInv
<1> QED BY <1>1, <1>2

LEMMA AnswerLinkedStep ==
    ASSUME AttemptInv, NEW r \in Requests, AnswerLinked(r)
    PROVE  AttemptInv'
<1> USE DEF AnswerLinked
<1>1. Grows /\ req' \in [Requests -> RequestType'] /\ RequestsSound'
  BY EndStep
<1>2. req[r].browser \in Browsers
  BY DEF AttemptInv, RequestsSound, Carried
<1>3. CookiesOK' /\ HandoffSound'
  BY <1>1, <1>2, ClearHandoff, TypesGrow DEF AttemptInv, CookiesOK
<1>4. spent' \subseteq Nonces \cup {None}
  BY <1>2 DEF AttemptInv, TypeOK, CookiesOK, NoncesTo
<1>5. TypeOK'
  BY <1>1, <1>3, <1>4, QuietTypes DEF AttemptInv, TypeOK
<1> QED BY <1>1, <1>3, <1>5 DEF AttemptInv

LEMMA FailStep ==
    ASSUME AttemptInv, NEW r \in Requests, Fail(r)
    PROVE  AttemptInv'
<1> USE DEF Fail, cookies
<1>1. Grows /\ req' \in [Requests -> RequestType'] /\ RequestsSound'
  BY EndStep
<1>2. CookiesOK'
  BY <1>1, TypesGrow DEF AttemptInv, CookiesOK
<1>3. TypeOK'
  BY <1>1, <1>2, QuietTypes DEF AttemptInv, TypeOK
<1>4. HandoffSound'
  BY <1>1, SameHandoff DEF AttemptInv
<1> QED BY <1>1, <1>3, <1>4 DEF AttemptInv

LEMMA ResumeStep ==
    ASSUME AttemptInv, NEW r \in Requests, NEW b \in Browsers, Resume(r, b)
    PROVE  AttemptInv'
<1> USE DEF Resume, cookies
<1> DEFINE l == redirects[handoff[b]].link
<1>1. PICK new : new = NewNonce
  OBVIOUS
<1> DEFINE q == [at |-> "resuming", browser |-> b, state |-> None, cookie |-> new]
<1>2. Sound(handoff[b], b)
  BY DEF AttemptInv, HandoffSound
<1>3. l \in Links /\ Author[l] \in proved[b]
  BY <1>2, RedirectAt DEF Sound, AttemptInv
<1>4. /\ redirects' \in Seq(Redirects)
      /\ Nonces \subseteq Nonces' /\ new \in Nonces' /\ new # None
      /\ \A k \in Nonces : redirects'[k] = redirects[k]
      /\ redirects'[new] = [to |-> "discord", browser |-> b, link |-> l]
  BY <1>1, <1>3, IssueExtends DEF AttemptInv, TypeOK, Redirects
<1>5. Grows
  BY <1>4 DEF Grows
<1>6. req' = [req EXCEPT ![r] = q] /\ q \in RequestType'
  BY <1>1, <1>4 DEF Goto, RequestType, Phases
<1>7. CookiesOK'
  BY <1>5, TypesGrow DEF AttemptInv, CookiesOK
<1>8. TypeOK'
  BY <1>4, <1>5, <1>6, <1>7, TypesGrow DEF AttemptInv, TypeOK, RequestType, Redirects
<1>9. Sound(new, b)'
  BY <1>3, <1>4 DEF Sound
<1>10. RequestsSound'
  <2>1. Carried(q)'
    BY <1>9 DEF Carried
  <2>2. DOMAIN req = Requests
    BY DEF AttemptInv, TypeOK
  <2> HIDE DEF q
  <2> QED BY <1>5, <1>6, <2>1, <2>2, OneRequest DEF AttemptInv
<1>11. HandoffSound'
  BY <1>5, SameHandoff DEF AttemptInv
<1> QED BY <1>8, <1>10, <1>11 DEF AttemptInv

LEMMA DiscordCallbackStep ==
    ASSUME AttemptInv, NEW r \in Requests, NEW b \in Browsers, NEW n \in Nonces,
           DiscordCallback(r, b, n)
    PROVE  AttemptInv'
<1> USE DEF DiscordCallback, cookies
<1> DEFINE q == [at |-> "authorizing", browser |-> b, state |-> n, cookie |-> n]
<1>1. Sound(n, b)
  BY DEF AttemptInv, HandoffSound, Nonces, None
<1>2. q \in RequestType /\ Carried(q) /\ req' = [req EXCEPT ![r] = q]
  BY <1>1 DEF RequestType, Phases, Carried, Goto
<1>3. Grows /\ req' \in [Requests -> RequestType'] /\ RequestsSound'
  <2> HIDE DEF q
  <2> QED BY <1>2, QuietStep
<1>4. CookiesOK'
  BY <1>3, TypesGrow DEF AttemptInv, CookiesOK
<1>5. TypeOK'
  BY <1>3, <1>4, QuietTypes DEF AttemptInv, TypeOK
<1>6. HandoffSound'
  BY <1>3, SameHandoff DEF AttemptInv
<1> QED BY <1>3, <1>5, <1>6 DEF AttemptInv

\* LinkStore changes connection, and its request goes on or ends.
LEMMA LinkStoreStep ==
    ASSUME AttemptInv, NEW r \in Requests, NEW d \in Accounts, LinkStore(r, d)
    PROVE  AttemptInv'
<1> USE DEF LinkStore, cookies
<1> DEFINE q == [at |-> "linked", browser |-> req[r].browser,
                 state |-> req[r].state, cookie |-> req[r].cookie]
<1>1. /\ Grows /\ req' \in [Requests -> RequestType'] /\ RequestsSound'
      /\ connection' \in [Users \X Repositories -> Accounts \cup {NoAccount}]
  <2>1. CASE Taken(r, d)
    BY <2>1, EndStep DEF AttemptInv, TypeOK
  <2>2. CASE ~Taken(r, d)
    <3>1. req[r] \in RequestType /\ req[r].browser \in Browsers
      BY DEF AttemptInv, TypeOK, RequestType, RequestsSound, Carried
    <3>2. q \in RequestType /\ Carried(q)
      BY <3>1 DEF RequestType, Phases, Carried
    <3>3. req' = [req EXCEPT ![r] = q]
      BY <2>2 DEF Goto
    <3>4. connection' \in [Users \X Repositories -> Accounts \cup {NoAccount}]
      BY <2>2 DEF AttemptInv, TypeOK
    <3> HIDE DEF q
    <3> QED BY <3>2, <3>3, <3>4, QuietStep
  <2> QED BY <2>1, <2>2
<1>2. CookiesOK'
  BY <1>1, TypesGrow DEF AttemptInv, CookiesOK
<1>3. TypeOK'
  BY <1>1, <1>2 DEF AttemptInv, TypeOK, RequestType, Grows
<1>4. HandoffSound'
  BY <1>1, SameHandoff DEF AttemptInv
<1> QED BY <1>1, <1>3, <1>4 DEF AttemptInv

\* Cookies expire, and the operator erases accounts.
LEMMA EnvironmentStep ==
    ASSUME AttemptInv,
           \/ \E b \in Browsers : ExpireStateCookie(b) \/ ExpireHandoff(b)
           \/ \E d \in Accounts : Erase(d)
    PROVE  AttemptInv'
<1> USE DEF ExpireStateCookie, ExpireHandoff, Erase, cookies
<1>1. Grows /\ RequestsSound' /\ req' \in [Requests -> RequestType']
  BY NothingNew, SameRequests, TypesGrow DEF AttemptInv
<1>2. CookiesOK' /\ HandoffSound'
  <2>1. CASE \E b \in Browsers : ExpireHandoff(b)
    BY <2>1, <1>1, ClearHandoff, TypesGrow DEF AttemptInv, CookiesOK
  <2>2. CASE \E b \in Browsers : ExpireStateCookie(b)
    BY <2>2, <1>1, SameHandoff, TypesGrow DEF AttemptInv, CookiesOK
  <2>3. CASE \E d \in Accounts : Erase(d)
    BY <2>3, <1>1, SameHandoff, TypesGrow DEF AttemptInv, CookiesOK
  <2> QED BY <2>1, <2>2, <2>3
<1>3. connection' \in [Users \X Repositories -> Accounts \cup {NoAccount}]
  BY DEF AttemptInv, TypeOK
<1>4. TypeOK'
  BY <1>1, <1>2, <1>3 DEF AttemptInv, TypeOK, RequestType, Grows
<1> QED BY <1>1, <1>2, <1>4 DEF AttemptInv

-----------------------------------------------------------------------------
LEMMA AttemptStep ==
    ASSUME AttemptInv, [Next]_vars
    PROVE  AttemptInv'
<1>1. CASE \E r \in Requests : Continue(r)
  BY <1>1, AnswerRejectedStep, AnswerIdentifiedStep, AnswerResumeStep, LinkStoreStep,
     AnswerLinkedStep, FailStep DEF Continue
<1>2. CASE \E r \in Requests, b \in Browsers : Send(r, b)
  BY <1>2, GitHubCallbackStep, RejectStep, ResumeStep, DiscordCallbackStep DEF Send
<1>3. CASE \E b \in Browsers, l \in Links : OpenLink(b, l)
  BY <1>3, OpenLinkStep
<1>4. CASE \/ \E b \in Browsers : ExpireStateCookie(b) \/ ExpireHandoff(b)
           \/ \E d \in Accounts : Erase(d)
  BY <1>4, EnvironmentStep
<1>5. CASE UNCHANGED vars
  BY <1>5 DEF vars, AttemptInv, TypeOK, CookiesOK, HandoffSound, RequestsSound, Carried, Sound,
     Nonces, NoncesTo
<1> QED BY <1>1, <1>2, <1>3, <1>4, <1>5 DEF Next

LEMMA AttemptsSound == Spec => []AttemptInv
<1>1. AttemptInv /\ [Next]_vars => AttemptInv'
  BY AttemptStep
<1> QED BY <1>1, InitSound, PTL DEF Spec

\* Every variable keeps its type, and a cookie holds the nonce of a redirect to
\* the side whose callback reads it: link.go never mixes up its two cookies.
THEOREM TypeCorrect == Spec => []TypeOK
<1>1. AttemptInv => TypeOK
  BY DEF AttemptInv
<1> QED BY <1>1, AttemptsSound, PTL

\* handleLinkDiscordCallback connects accounts only for a browser that proved
\* to be the GitHub user and that the server asked for this very link.
THEOREM ConnectsOnlyWhatIsEarned == Spec => ConnectionsEarned
<1> DEFINE Step == \A c \in Users \X Repositories :
               connection'[c] \notin {NoAccount, connection[c]} =>
                   \E r \in Requests : Earned(r, c)
<1>1. AttemptInv /\ [Next]_vars => [Step]_vars
  <2> SUFFICES ASSUME AttemptInv, Next,
                      NEW c \in Users \X Repositories,
                      connection'[c] \notin {NoAccount, connection[c]}
               PROVE  \E r \in Requests : Earned(r, c)
    BY DEF vars
  <2>1. ~\E d \in Accounts : Erase(d)
    BY DEF Erase
  <2>2. PICK r \in Requests, d \in Accounts : LinkStore(r, d)
    BY <2>1 DEF Next, Continue, Send, AnswerRejected, AnswerIdentified, AnswerResume, AnswerLinked,
       Fail, GitHubCallback, RejectGitHubCallback, Resume, DiscordCallback, OpenLink,
       ExpireStateCookie, ExpireHandoff
  <2>3. req[r].at = "authorizing" /\ c = Key(r)
    BY <2>2 DEF LinkStore, AttemptInv, TypeOK
  <2>4. Sound(req[r].state, req[r].browser) /\ req[r].state = req[r].cookie
    BY <2>3 DEF AttemptInv, RequestsSound, Carried
  <2>5. Earned(r, c)
    BY <2>3, <2>4 DEF Earned, Sound, Key
  <2> QED BY <2>5
<1> QED BY <1>1, AttemptsSound, PTL DEF Spec, ConnectionsEarned

-----------------------------------------------------------------------------
(***************************************************************************)
(* Cookies that were cleared.                                              *)
(***************************************************************************)

\* The answers under way that will set a handoff cookie.
Setting(r) == req[r].at \in {"handing", "resuming"}

\* No cookie that a browser holds, or that an answer will set, has been cleared;
\* no nonce is in two places; a state cookie is its own browser's.
StateFresh ==
    \A b \in Browsers : stateCookie[b] # None =>
        redirects[stateCookie[b]].browser = b /\ stateCookie[b] \notin spent
HandoffFresh == \A b \in Browsers : handoff[b] # None => handoff[b] \notin spent
AnswersFresh ==
    \A r \in Requests : Setting(r) =>
        req[r].cookie \notin spent /\ \A b \in Browsers : handoff[b] # req[r].cookie
AnswersDistinct ==
    \A r, s \in Requests : Setting(r) /\ Setting(s) /\ r # s => req[r].cookie # req[s].cookie

FreshInv == StateFresh /\ HandoffFresh /\ AnswersFresh /\ AnswersDistinct

\* What AttemptInv says of the nonces themselves.
LEMMA NoncePlaces ==
    ASSUME AttemptInv
    PROVE  /\ Len(redirects) \in Nat /\ NewNonce \notin Nonces \cup {None} /\ NewNonce \notin spent
           /\ \A b \in Browsers : stateCookie[b] # None =>
                 stateCookie[b] \in Nonces /\ redirects[stateCookie[b]].to = "github"
           /\ \A b \in Browsers : handoff[b] # None =>
                 /\ handoff[b] \in Nonces
                 /\ redirects[handoff[b]].to = "discord" /\ redirects[handoff[b]].browser = b
           /\ \A r \in Requests : Setting(r) =>
                 /\ req[r].browser \in Browsers /\ req[r].cookie \in Nonces /\ req[r].cookie # None
                 /\ redirects[req[r].cookie].to = "discord"
<1>1. Len(redirects) \in Nat /\ spent \subseteq Nonces \cup {None}
  BY DEF AttemptInv, TypeOK
<1>2. NewNonce \notin Nonces \cup {None}
  BY <1>1 DEF NewNonce, Nonces, None
<1>3. \A b \in Browsers : stateCookie[b] # None =>
         stateCookie[b] \in Nonces /\ redirects[stateCookie[b]].to = "github"
  BY DEF AttemptInv, TypeOK, CookiesOK, NoncesTo
<1>4. \A b \in Browsers : handoff[b] # None =>
         /\ handoff[b] \in Nonces
         /\ redirects[handoff[b]].to = "discord" /\ redirects[handoff[b]].browser = b
  BY DEF AttemptInv, HandoffSound, Sound
<1>5. \A r \in Requests : Setting(r) =>
         /\ req[r].browser \in Browsers /\ req[r].cookie \in Nonces
         /\ redirects[req[r].cookie].to = "discord"
  BY DEF AttemptInv, RequestsSound, Carried, Setting, Sound
<1>6. \A n \in Nonces : n # None
  BY DEF Nonces, None
<1> QED BY <1>1, <1>2, <1>3, <1>4, <1>5, <1>6

\* Requests that set a handoff cookie are none but those that did before.
NoNewAnswer == \A s \in Requests : Setting(s)' => Setting(s) /\ req'[s] = req[s]

LEMMA FewerAnswers ==
    ASSUME AttemptInv, FreshInv, UNCHANGED spent, NoNewAnswer,
           \A b \in Browsers : handoff'[b] \in {handoff[b], None}
    PROVE  AnswersFresh' /\ AnswersDistinct'
<1>1. AnswersDistinct'
  BY DEF NoNewAnswer, AnswersDistinct, FreshInv
<1>2. AnswersFresh'
  BY NoncePlaces DEF NoNewAnswer, AnswersFresh, FreshInv
<1> QED BY <1>1, <1>2

LEMMA OpenLinkFresh ==
    ASSUME AttemptInv, FreshInv, NEW b \in Browsers, NEW l \in Links, OpenLink(b, l)
    PROVE  FreshInv'
<1> USE DEF OpenLink
<1>1. /\ \A n \in Nonces : redirects'[n] = redirects[n]
      /\ redirects'[NewNonce] = [to |-> "github", browser |-> b, link |-> l]
  BY IssueExtends DEF AttemptInv, TypeOK, Redirects
<1>2. StateFresh'
  <2> SUFFICES ASSUME NEW b2 \in Browsers, stateCookie'[b2] # None
               PROVE  redirects'[stateCookie'[b2]].browser = b2 /\ stateCookie'[b2] \notin spent'
    BY DEF StateFresh
  <2>1. CASE b2 = b
    BY <2>1, <1>1, NoncePlaces DEF AttemptInv, TypeOK, CookiesOK
  <2>2. CASE b2 # b
    BY <2>2, <1>1, NoncePlaces DEF FreshInv, StateFresh, AttemptInv, TypeOK, CookiesOK
  <2> QED BY <2>1, <2>2
<1>3. HandoffFresh' /\ AnswersFresh' /\ AnswersDistinct'
  BY DEF FreshInv, HandoffFresh, AnswersFresh, AnswersDistinct, Setting
<1> QED BY <1>2, <1>3 DEF FreshInv

\* A request that will set a cookie under a new nonce.
LEMMA NewAnswer ==
    ASSUME AttemptInv, FreshInv, UNCHANGED cookies,
           \A n \in Nonces : redirects'[n] = redirects[n],
           NEW r \in Requests, req'[r].cookie = NewNonce,
           \A s \in Requests \ {r} : req'[s] = req[s]
    PROVE  FreshInv'
<1> USE DEF cookies
<1>1. StateFresh' /\ HandoffFresh'
  BY NoncePlaces DEF FreshInv, StateFresh, HandoffFresh
<1>2. \A s \in Requests \ {r} : Setting(s)' => Setting(s)
  BY DEF Setting
<1>3. AnswersFresh'
  BY <1>2, NoncePlaces DEF FreshInv, AnswersFresh
<1>4. AnswersDistinct'
  BY <1>2, NoncePlaces DEF FreshInv, AnswersDistinct
<1> QED BY <1>1, <1>3, <1>4 DEF FreshInv

\* A state cookie that is cleared was nobody else's cookie.
LEMMA ClearFresh ==
    ASSUME AttemptInv, FreshInv, NEW b \in Browsers, ClearStateCookie(b), UNCHANGED redirects
    PROVE  /\ StateFresh'
           /\ \A c \in Browsers : handoff[c] # None => handoff[c] \notin spent'
           /\ \A r \in Requests : Setting(r) => req[r].cookie \notin spent'
<1> USE DEF ClearStateCookie
<1>1. \A c \in Browsers : stateCookie'[c] = IF c = b THEN None ELSE stateCookie[c]
  BY DEF AttemptInv, TypeOK, CookiesOK
<1>2. StateFresh'
  BY <1>1, NoncePlaces DEF FreshInv, StateFresh
<1>3. \A c \in Browsers : handoff[c] # None => handoff[c] # stateCookie[b]
  BY NoncePlaces
<1>4. \A r \in Requests : Setting(r) => req[r].cookie # stateCookie[b]
  BY NoncePlaces
<1> QED BY <1>2, <1>3, <1>4 DEF FreshInv, HandoffFresh, AnswersFresh

\* An answer that sets its handoff cookie leaves no other answer with it.
LEMMA SetFresh ==
    ASSUME AttemptInv, FreshInv, UNCHANGED redirects, NEW r \in Requests, Setting(r), End(r),
           handoff' = [handoff EXCEPT ![req[r].browser] = req[r].cookie],
           \A c \in Browsers : handoff[c] # None => handoff[c] \notin spent',
           \A s \in Requests : Setting(s) => req[s].cookie \notin spent'
    PROVE  HandoffFresh' /\ AnswersFresh' /\ AnswersDistinct'
<1>1. \A c \in Browsers : handoff'[c] = IF c = req[r].browser THEN req[r].cookie ELSE handoff[c]
  BY DEF AttemptInv, TypeOK, CookiesOK
<1>2. HandoffFresh'
  BY <1>1 DEF HandoffFresh
<1>3. \A s \in Requests : Setting(s)' => s # r /\ Setting(s) /\ req'[s] = req[s]
  BY DEF Setting, AttemptInv, TypeOK, End, Idle
<1>4. AnswersDistinct'
  BY <1>3 DEF FreshInv, AnswersDistinct
<1>5. AnswersFresh'
  BY <1>1, <1>3 DEF FreshInv, AnswersFresh, AnswersDistinct
<1> QED BY <1>2, <1>4, <1>5

LEMMA RequestFresh ==
    ASSUME AttemptInv, FreshInv, NEW r \in Requests, Continue(r)
    PROVE  FreshInv'
<1> USE DEF Continue, cookies
<1>1. CASE AnswerRejected(r)
  <2>1. req[r].browser \in Browsers
    BY <1>1 DEF AnswerRejected, AttemptInv, RequestsSound, Carried
  <2>2. \A s \in Requests : Setting(s)' => Setting(s) /\ req'[s] = req[s]
    BY <1>1 DEF AnswerRejected, End, Idle, Setting, AttemptInv, TypeOK
  <2>3. AnswersDistinct'
    BY <2>2 DEF FreshInv, AnswersDistinct
  <2> QED
    BY <1>1, <2>1, <2>2, <2>3, ClearFresh DEF AnswerRejected, FreshInv, HandoffFresh, AnswersFresh
<1>2. CASE AnswerIdentified(r)
  <2>1. Setting(r) /\ req[r].browser \in Browsers
    BY <1>2, NoncePlaces DEF AnswerIdentified, Setting
  <2> QED BY <1>2, <2>1, ClearFresh, SetFresh DEF AnswerIdentified, FreshInv
<1>3. CASE AnswerResume(r)
  <2>1. Setting(r)
    BY <1>3 DEF AnswerResume, Setting
  <2>2. StateFresh'
    BY <1>3 DEF AnswerResume, FreshInv, StateFresh
  <2>3. HandoffFresh' /\ AnswersFresh' /\ AnswersDistinct'
    BY <1>3, <2>1, SetFresh DEF AnswerResume, FreshInv, HandoffFresh, AnswersFresh
  <2> QED BY <2>2, <2>3 DEF FreshInv
<1>4. CASE AnswerLinked(r)
  <2> DEFINE b == req[r].browser
  <2>1. b \in Browsers
    BY <1>4 DEF AnswerLinked, AttemptInv, RequestsSound, Carried
  <2>2. \A c \in Browsers : handoff'[c] = IF c = b THEN None ELSE handoff[c]
    BY <1>4 DEF AnswerLinked, AttemptInv, TypeOK, CookiesOK
  <2>3. \A s \in Requests : Setting(s)' => Setting(s) /\ req'[s] = req[s]
    BY <1>4 DEF AnswerLinked, End, Idle, Setting, AttemptInv, TypeOK
  <2>4. spent' = spent \cup {handoff[b]}
    BY <1>4 DEF AnswerLinked
  <2>5. StateFresh'
    BY <1>4, <2>1, <2>4, NoncePlaces DEF AnswerLinked, FreshInv, StateFresh
  <2>6. HandoffFresh'
    BY <2>1, <2>2, <2>4, NoncePlaces DEF FreshInv, HandoffFresh
  <2>7. AnswersFresh'
    BY <2>1, <2>2, <2>3, <2>4, NoncePlaces DEF FreshInv, AnswersFresh
  <2>8. AnswersDistinct'
    BY <2>3 DEF FreshInv, AnswersDistinct
  <2> QED BY <2>5, <2>6, <2>7, <2>8 DEF FreshInv
<1>5. CASE Fail(r) \/ \E d \in Accounts : LinkStore(r, d)
  <2>1. NoNewAnswer
    BY <1>5 DEF Fail, LinkStore, End, Goto, Idle, NoNewAnswer, Setting, AttemptInv, TypeOK
  <2>2. UNCHANGED <<redirects, cookies>>
    BY <1>5 DEF Fail, LinkStore
  <2>3. AnswersFresh' /\ AnswersDistinct'
    BY <2>1, <2>2, FewerAnswers DEF cookies
  <2> QED BY <2>2, <2>3 DEF FreshInv, StateFresh, HandoffFresh
<1> QED BY <1>1, <1>2, <1>3, <1>4, <1>5

LEMMA SendFresh ==
    ASSUME AttemptInv, FreshInv, NEW r \in Requests, NEW b \in Browsers, Send(r, b)
    PROVE  FreshInv'
<1> USE DEF Send
<1>1. CASE \E n \in Nonces, u \in Users : GitHubCallback(r, b, n, u)
  <2>1. PICK n \in Nonces, u \in Users : GitHubCallback(r, b, n, u)
    BY <1>1
  <2>2. \A k \in Nonces : redirects'[k] = redirects[k]
    BY <2>1, RedirectAt, IssueExtends DEF GitHubCallback, AttemptInv, TypeOK, Redirects
  <2>3. req'[r].cookie = NewNonce /\ \A s \in Requests \ {r} : req'[s] = req[s]
    BY <2>1 DEF GitHubCallback, Goto, AttemptInv, TypeOK
  <2> QED BY <2>1, <2>2, <2>3, NewAnswer DEF GitHubCallback
<1>2. CASE Resume(r, b)
  <2>1. redirects[handoff[b]].link \in Links
    BY <1>2, NoncePlaces, RedirectAt DEF Resume, AttemptInv
  <2>2. \A k \in Nonces : redirects'[k] = redirects[k]
    BY <1>2, <2>1, IssueExtends DEF Resume, AttemptInv, TypeOK, Redirects
  <2>3. req'[r].cookie = NewNonce /\ \A s \in Requests \ {r} : req'[s] = req[s]
    BY <1>2 DEF Resume, Goto, AttemptInv, TypeOK
  <2> QED BY <1>2, <2>2, <2>3, NewAnswer DEF Resume
<1>3. CASE \E n \in Nonces : RejectGitHubCallback(r, b, n) \/ DiscordCallback(r, b, n)
  <2>1. NoNewAnswer
    BY <1>3 DEF RejectGitHubCallback, DiscordCallback, Goto, NoNewAnswer, Setting, AttemptInv, TypeOK
  <2>2. UNCHANGED <<redirects, cookies>>
    BY <1>3 DEF RejectGitHubCallback, DiscordCallback
  <2>3. AnswersFresh' /\ AnswersDistinct'
    BY <2>1, <2>2, FewerAnswers DEF cookies
  <2> QED BY <2>2, <2>3 DEF FreshInv, StateFresh, HandoffFresh, cookies
<1> QED BY <1>1, <1>2, <1>3

LEMMA EnvironmentFresh ==
    ASSUME AttemptInv, FreshInv,
           \/ \E b \in Browsers : ExpireStateCookie(b) \/ ExpireHandoff(b)
           \/ \E d \in Accounts : Erase(d)
    PROVE  FreshInv'
<1> USE DEF ExpireStateCookie, ExpireHandoff, Erase, cookies
<1>1. UNCHANGED <<redirects, req, spent>>
  OBVIOUS
<1>2. \A c \in Browsers : stateCookie'[c] \in {stateCookie[c], None} /\ handoff'[c] \in {handoff[c], None}
  BY DEF AttemptInv, TypeOK, CookiesOK
<1>3. StateFresh' /\ HandoffFresh'
  BY <1>1, <1>2 DEF FreshInv, StateFresh, HandoffFresh
<1>4. AnswersFresh' /\ AnswersDistinct'
  BY <1>1, <1>2, NoncePlaces DEF FreshInv, AnswersFresh, AnswersDistinct, Setting
<1> QED BY <1>3, <1>4 DEF FreshInv

LEMMA FreshStep ==
    ASSUME AttemptInv, FreshInv, [Next]_vars
    PROVE  FreshInv'
<1>1. CASE UNCHANGED vars
  BY <1>1 DEF vars, FreshInv, StateFresh, HandoffFresh, AnswersFresh, AnswersDistinct, Setting
<1> QED BY <1>1, RequestFresh, SendFresh, OpenLinkFresh, EnvironmentFresh DEF Next

LEMMA CookiesStayFresh == Spec => []FreshInv
<1>1. Init => FreshInv
  BY DEF Init, FreshInv, StateFresh, HandoffFresh, AnswersFresh, AnswersDistinct, Setting, Idle, None
<1>2. AttemptInv /\ FreshInv /\ [Next]_vars => FreshInv'
  BY FreshStep
<1> QED BY <1>1, <1>2, AttemptsSound, PTL DEF Spec

\* "every path below must consume it" (handleLinkGitHubCallback): a cookie that
\* an answer has cleared is not accepted again, in whatever order the answers
\* of a browser's tabs arrive.
THEOREM SpentStaysSpent == Spec => SpentForGood
<1> DEFINE Step == \A r \in Requests : Accepted(r)' /\ ~Accepted(r) => req'[r].state \notin spent
<1>1. AttemptInv /\ FreshInv /\ [Next]_vars => [Step]_vars
  <2> SUFFICES ASSUME AttemptInv, FreshInv, Next,
                      NEW r \in Requests, Accepted(r)', ~Accepted(r)
               PROVE  req'[r].state \notin spent
    BY DEF vars
  <2>1. PICK s \in Requests : req'[r] # req[r] /\ (Continue(s) \/ \E b \in Browsers : Send(s, b))
    BY DEF Next, Accepted, OpenLink, ExpireStateCookie, ExpireHandoff, Erase
  <2>2. CASE Continue(s)
    BY <2>1, <2>2 DEF Continue, AnswerRejected, AnswerIdentified, AnswerResume, LinkStore, AnswerLinked,
       Fail, End, Goto, Idle, Accepted, AttemptInv, TypeOK
  <2>3. CASE \E b \in Browsers : Send(s, b)
    <3>1. PICK b \in Browsers : Send(s, b)
      BY <2>3
    <3>2. r = s
      BY <2>1, <3>1 DEF Send, GitHubCallback, RejectGitHubCallback, Resume, DiscordCallback, Goto,
         AttemptInv, TypeOK
    <3>3. CASE \E n \in Nonces, u \in Users : GitHubCallback(s, b, n, u)
      BY <3>2, <3>3 DEF GitHubCallback, Goto, FreshInv, StateFresh, AttemptInv, TypeOK, Nonces, None
    <3>4. CASE \E n \in Nonces : DiscordCallback(s, b, n)
      BY <3>2, <3>4 DEF DiscordCallback, Goto, FreshInv, HandoffFresh, AttemptInv, TypeOK, Nonces, None
    <3>5. CASE Resume(s, b) \/ \E n \in Nonces : RejectGitHubCallback(s, b, n)
      BY <3>2, <3>5 DEF Resume, RejectGitHubCallback, Goto, Accepted, AttemptInv, TypeOK
    <3> QED BY <3>1, <3>3, <3>4, <3>5 DEF Send
  <2> QED BY <2>1, <2>2, <2>3
<1> QED BY <1>1, AttemptsSound, CookiesStayFresh, PTL DEF Spec, SpentForGood

-----------------------------------------------------------------------------
(***************************************************************************)
(* Link implements Linking: each step of a request, seen without cookies,  *)
(* nonces and callbacks, is a step of the promise or none.                 *)
(***************************************************************************)

\* A redirect to Discord asks its browser for its link; one to GitHub asks nothing.
LEMMA IssueAsks ==
    ASSUME redirects \in Seq(Redirects),
           NEW to \in {"github", "discord"}, NEW b \in Browsers, NEW l \in Links,
           Issue(to, b, l)
    PROVE  Asked' = IF to = "discord" THEN Asked \cup {<<b, l>>} ELSE Asked
<1>1. /\ \A n \in Nonces : redirects'[n] = redirects[n]
      /\ redirects'[NewNonce] = [to |-> to, browser |-> b, link |-> l]
  BY IssueExtends
<1>2. Nonces' = Nonces \cup {NewNonce}
  <2>1. redirects' = Append(redirects, [to |-> to, browser |-> b, link |-> l])
        /\ [to |-> to, browser |-> b, link |-> l] \in Redirects
    BY DEF Issue, Redirects
  <2> HIDE DEF Redirects
  <2>2. Len(redirects') = Len(redirects) + 1 /\ Len(redirects) \in Nat
    BY <2>1
  <2> QED BY <2>2 DEF Nonces, NewNonce
<1>3. NoncesTo("discord")' = IF to = "discord" THEN NoncesTo("discord") \cup {NewNonce}
                                               ELSE NoncesTo("discord")
  BY <1>1, <1>2 DEF NoncesTo
<1>4. \A n \in NoncesTo("discord") :
         <<redirects'[n].browser, redirects'[n].link>> = <<redirects[n].browser, redirects[n].link>>
  BY <1>1 DEF NoncesTo
<1>5. to = "discord" =>
         <<redirects'[NewNonce].browser, redirects'[NewNonce].link>> = <<b, l>>
  BY <1>1
<1> HIDE DEF Asked
<1>6. CASE to = "discord"
  BY <1>3, <1>4, <1>5, <1>6 DEF Asked
<1>7. CASE to # "discord"
  BY <1>3, <1>4, <1>7 DEF Asked
<1> QED BY <1>6, <1>7

\* Steps that issue no redirect and touch no row are invisible.
LEMMA QuietIsInvisible ==
    ASSUME UNCHANGED <<redirects, connection, proved>>
    PROVE  UNCHANGED Promise!vars
BY DEF Promise!vars, Asked, NoncesTo, Nonces

LEMMA SignInStep ==
    ASSUME AttemptInv, NEW r \in Requests, NEW b \in Browsers, NEW n \in Nonces,
           NEW u \in Users, GitHubCallback(r, b, n, u)
    PROVE  \E l \in Links : Promise!SignIn(b, l)
<1> DEFINE l == redirects[n].link
<1>1. l \in Links
  BY RedirectAt DEF AttemptInv, TypeOK
<1>2. redirects \in Seq(Redirects)
  BY DEF AttemptInv, TypeOK, Redirects
<1>3. Asked' = Asked \cup {<<b, l>>}
  BY <1>1, <1>2, IssueAsks DEF GitHubCallback
<1>4. proved' = [proved EXCEPT ![b] = @ \cup {Author[l]}] /\ UNCHANGED connection
  BY DEF GitHubCallback
<1> QED BY <1>1, <1>3, <1>4 DEF Promise!SignIn

\* Resuming asks for what this browser was asked for already.
LEMMA ResumeIsInvisible ==
    ASSUME AttemptInv, NEW r \in Requests, NEW b \in Browsers, Resume(r, b)
    PROVE  UNCHANGED Promise!vars
<1> DEFINE l == redirects[handoff[b]].link
<1>1. Sound(handoff[b], b)
  BY DEF Resume, AttemptInv, HandoffSound
<1>2. redirects \in Seq(Redirects) /\ l \in Links
  BY <1>1, RedirectAt DEF AttemptInv, TypeOK, Redirects, Sound
<1>3. <<b, l>> \in Asked
  BY <1>1 DEF Sound, Asked, NoncesTo
<1>4. Asked' = Asked \cup {<<b, l>>}
  BY <1>2, IssueAsks DEF Resume
<1> QED BY <1>3, <1>4 DEF Resume, Promise!vars

LEMMA OpenLinkIsInvisible ==
    ASSUME AttemptInv, NEW b \in Browsers, NEW l \in Links, OpenLink(b, l)
    PROVE  UNCHANGED Promise!vars
<1>1. redirects \in Seq(Redirects)
  BY DEF AttemptInv, TypeOK, Redirects
<1>2. Asked' = Asked
  BY <1>1, IssueAsks DEF OpenLink
<1> QED BY <1>2 DEF OpenLink, Promise!vars

\* The write of an authorized callback is the connection its browser was asked for.
LEMMA ConnectStep ==
    ASSUME AttemptInv, NEW r \in Requests, NEW d \in Accounts, LinkStore(r, d)
    PROVE  \/ \E b \in Browsers, l \in Links : Promise!Connect(b, l, d)
           \/ UNCHANGED Promise!vars
<1>1. CASE Taken(r, d)
  BY <1>1, QuietIsInvisible DEF LinkStore
<1>2. CASE ~Taken(r, d)
  <2> DEFINE b == req[r].browser
             l == redirects[req[r].cookie].link
  <2>1. b \in Browsers /\ Sound(req[r].cookie, b)
    BY DEF LinkStore, AttemptInv, RequestsSound, Carried
  <2>2. l \in Links /\ <<b, l>> \in Asked
    BY <2>1, RedirectAt DEF AttemptInv, TypeOK, Sound, Asked, NoncesTo
  <2>3. Author[l] \in Users /\ Repository[l] \in Repositories /\ Key(r) = <<Author[l], Repository[l]>>
    BY <2>2, LinkAssumption DEF Key
  <2>4. connection' = [connection EXCEPT ![<<Author[l], Repository[l]>>] = d]
        /\ UNCHANGED <<redirects, proved>>
    BY <1>2, <2>3 DEF LinkStore
  <2>5. \A u \in Users \ {Author[l]} : connection[<<u, Repository[l]>>] # d
    <3> SUFFICES ASSUME NEW u \in Users \ {Author[l]}
                 PROVE  connection[<<u, Repository[l]>>] # d
      OBVIOUS
    <3>1. <<u, Repository[l]>> \in Users \X Repositories
          /\ <<u, Repository[l]>> # Key(r) /\ <<u, Repository[l]>>[2] = Key(r)[2]
      BY <2>3
    <3> QED BY <1>2, <3>1 DEF Taken
  <2>6. Asked' = Asked
    BY <2>4 DEF Asked, NoncesTo, Nonces
  <2>7. Promise!Connect(b, l, d)
    <3> HIDE DEF b, l
    <3> QED BY <2>2, <2>4, <2>5, <2>6 DEF Promise!Connect
  <2> QED BY <2>1, <2>2, <2>7
<1> QED BY <1>1, <1>2

\* Every step of Link is one step of Linking or leaves it alone.
LEMMA StepImplements ==
    AttemptInv /\ [Next]_vars => [Promise!Next]_(Promise!vars)
<1> SUFFICES ASSUME AttemptInv, [Next]_vars
             PROVE  Promise!Next \/ UNCHANGED Promise!vars
  OBVIOUS
<1>1. CASE UNCHANGED vars
  BY <1>1, QuietIsInvisible DEF vars
<1>2. ASSUME NEW r \in Requests, NEW b \in Browsers, NEW n \in Nonces, NEW u \in Users,
             GitHubCallback(r, b, n, u)
      PROVE  Promise!Next
  BY <1>2, SignInStep DEF Promise!Next
<1>3. ASSUME NEW r \in Requests, NEW b \in Browsers, Resume(r, b)
      PROVE  UNCHANGED Promise!vars
  BY <1>3, ResumeIsInvisible
<1>4. ASSUME NEW r \in Requests, NEW d \in Accounts, LinkStore(r, d)
      PROVE  Promise!Next \/ UNCHANGED Promise!vars
  BY <1>4, ConnectStep DEF Promise!Next
<1>5. ASSUME NEW b \in Browsers, NEW l \in Links, OpenLink(b, l)
      PROVE  UNCHANGED Promise!vars
  BY <1>5, OpenLinkIsInvisible
<1>6. ASSUME NEW d \in Accounts, Erase(d)
      PROVE  Promise!Next
  <2>1. Promise!Erase(d)
    BY <1>6 DEF Erase, Promise!Erase, Asked, NoncesTo, Nonces
  <2> QED BY <2>1 DEF Promise!Next
<1>7. ASSUME NEW r \in Requests,
             \/ AnswerRejected(r) \/ AnswerIdentified(r) \/ AnswerResume(r) \/ AnswerLinked(r)
             \/ Fail(r)
             \/ \E b \in Browsers, n \in Nonces :
                   RejectGitHubCallback(r, b, n) \/ DiscordCallback(r, b, n)
      PROVE  UNCHANGED Promise!vars
  BY <1>7, QuietIsInvisible DEF AnswerRejected, AnswerIdentified, AnswerResume, AnswerLinked, Fail,
     RejectGitHubCallback, DiscordCallback
<1>8. ASSUME NEW b \in Browsers, ExpireStateCookie(b) \/ ExpireHandoff(b)
      PROVE  UNCHANGED Promise!vars
  BY <1>8, QuietIsInvisible DEF ExpireStateCookie, ExpireHandoff
<1> QED BY <1>1, <1>2, <1>3, <1>4, <1>5, <1>6, <1>7, <1>8 DEF Next, Continue, Send

\* The browser flow, with every tab, repeated callback, lost or late answer and
\* expiry that Link has, implements what linking promises.
THEOREM ImplementsLinking == Spec => LinksAsPromised
<1>1. Init => Promise!Init
  BY DEF Init, Promise!Init, Asked, NoncesTo, Nonces
<1> QED BY <1>1, StepImplements, AttemptsSound, PTL DEF Spec, LinksAsPromised, Promise!Spec

\* The rows stay one-to-one per repository, however the callbacks of several users
\* interleave: Linking's own steps keep them so.
THEOREM LinksAreOneToOne == Spec => []OneUserPerAccount
<1>1. Init => OneUserPerAccount
  BY DEF Init, OneUserPerAccount, Promise!OneUserPerAccount
<1>2. AttemptInv /\ OneUserPerAccount /\ [Next]_vars => OneUserPerAccount'
  <2> SUFFICES ASSUME AttemptInv, OneUserPerAccount, [Next]_vars
               PROVE  OneUserPerAccount'
    OBVIOUS
  <2>1. connection \in [Users \X Repositories -> Accounts \cup {NoAccount}]
    BY DEF AttemptInv, TypeOK
  <2>2. CASE UNCHANGED connection
    BY <2>2 DEF OneUserPerAccount, Promise!OneUserPerAccount
  <2>3. ASSUME NEW b \in Browsers, NEW l \in Links, NEW d \in Accounts, Promise!Connect(b, l, d)
        PROVE  OneUserPerAccount'
    <3> DEFINE key == <<Author[l], Repository[l]>>
    <3>1. key \in Users \X Repositories /\ connection' = [connection EXCEPT ![key] = d]
      BY <2>3, LinkAssumption DEF Promise!Connect
    <3>2. \A c \in Users \X Repositories :
             c # key /\ c[2] = key[2] => connection[c] # d
      BY <2>3 DEF Promise!Connect
    <3> HIDE DEF key
    <3> QED BY <2>1, <3>1, <3>2 DEF OneUserPerAccount, Promise!OneUserPerAccount
  <2>4. ASSUME NEW d \in Accounts, Promise!Erase(d)
        PROVE  OneUserPerAccount'
    BY <2>1, <2>4 DEF Promise!Erase, OneUserPerAccount, Promise!OneUserPerAccount
  <2>5. UNCHANGED connection \/ Promise!Next
    BY StepImplements DEF Promise!vars
  <2>6. ASSUME NEW b \in Browsers, NEW l \in Links, Promise!SignIn(b, l)
        PROVE  UNCHANGED connection
    BY <2>6 DEF Promise!SignIn
  <2> QED BY <2>2, <2>3, <2>4, <2>5, <2>6 DEF Promise!Next
<1> QED BY <1>1, <1>2, AttemptsSound, PTL DEF Spec
=============================================================================
