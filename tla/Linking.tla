-------------------------------- MODULE Linking --------------------------------
(***************************************************************************)
(* What account linking promises (README, "How It Works"; the unique       *)
(* constraints of github_discord_connections): a GitHub user is connected  *)
(* to a Discord account for a repository only from a browser in which      *)
(* GitHub named that user and which was then asked for Discord's consent,  *)
(* and an account has at most one user in a repository.                    *)
(*                                                                         *)
(* There are no cookies, nonces, callbacks or tabs here: Link, which has   *)
(* them, implements this specification.                                    *)
(***************************************************************************)
CONSTANTS Browsers, Links, Users, Accounts, Repositories,
          Author,      \* the GitHub user each link is for
          Repository,  \* and its repository
          NoAccount

VARIABLES
    proved,      \* the users GitHub has named, per browser
    asked,       \* <<b, l>>: consent for link l was asked for in browser b
    connection   \* the Discord account of each user in each repository

vars == <<proved, asked, connection>>

Init ==
    /\ proved = [b \in Browsers |-> {}]
    /\ asked = {}
    /\ connection = [c \in Users \X Repositories |-> NoAccount]

\* GitHub names the author of link l in browser b, which goes on to Discord.
SignIn(b, l) ==
    /\ proved' = [proved EXCEPT ![b] = @ \cup {Author[l]}]
    /\ asked' = asked \cup {<<b, l>>}
    /\ UNCHANGED connection

\* Discord names account d in a browser that was asked for link l.
Connect(b, l, d) ==
    /\ <<b, l>> \in asked
    /\ \A u \in Users \ {Author[l]} : connection[<<u, Repository[l]>>] # d
    /\ connection' = [connection EXCEPT ![<<Author[l], Repository[l]>>] = d]
    /\ UNCHANGED <<proved, asked>>

\* An account's data is deleted.
Erase(d) ==
    /\ connection' = [c \in Users \X Repositories |->
                        IF connection[c] = d THEN NoAccount ELSE connection[c]]
    /\ UNCHANGED <<proved, asked>>

Next ==
    \/ \E b \in Browsers, l \in Links : SignIn(b, l)
    \/ \E b \in Browsers, l \in Links, d \in Accounts : Connect(b, l, d)
    \/ \E d \in Accounts : Erase(d)

Spec == Init /\ [][Next]_vars

-----------------------------------------------------------------------------
\* An account belongs to at most one user in a repository.
OneUserPerAccount ==
    \A c, e \in Users \X Repositories :
        c[2] = e[2] /\ connection[c] = connection[e] /\ connection[c] # NoAccount => c = e
=============================================================================
