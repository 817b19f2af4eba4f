---------------------------- MODULE SocialDomain ----------------------------
(***************************************************************************)
(* Friends, the party and invitations to join it:                          *)
(* src/src/v5/SocialDomain.cpp.                                            *)
(*                                                                         *)
(* The service changes what is so and sends records of it, which arrive in *)
(* any order, more than once or never; a record may also be wrong in       *)
(* itself, and one that does not come from the service is refused.  The    *)
(* page that asks to join holds an authorization while time goes on and    *)
(* the party changes.  Left out: names, tokens, the order of the friends.  *)
(***************************************************************************)
EXTENDS Integers, FiniteSets, Sequences, SequencesExt

CONSTANTS
    Self,                   \* the local account
    People,                 \* other accounts
    Joinable, NoContent,
    Parties, NoParty,
    MaxMembers, MaxClock

\* What is required of the constants.
SocialConstantsOK == MaxMembers \in Nat /\ MaxClock \in Nat

Relationships == {"None", "PendingIncoming", "PendingOutgoing", "Friends", "Blocked"}
Presences == {"Offline", "Online", "InGame", "InParty"}

FriendRecord == [relationship : Relationships, presence : Presences,
                 content : Joinable \cup {NoContent}, joinable : BOOLEAN]
NoRecord == [relationship |-> "None", presence |-> "Offline", content |-> NoContent, joinable |-> FALSE]

Member == [account : People \cup {Self}, leader : BOOLEAN]
Party == [id : Parties, members : SeqOf(Member, MaxMembers), target : Joinable \cup {NoContent}]
EmptyParty == [id |-> NoParty, members |-> <<>>, target |-> NoContent]

VARIABLES
    friends,        \* friends_, with NoRecord for those it does not have
    party,          \* party_
    join,           \* the authorization that the page holds
    joined,         \* history: what the page has joined with it, and the party it asked about
    clock

socialVars == <<friends, party, join, joined, clock>>

NoJoin == [party |-> NoParty, account |-> Self, content |-> NoContent, expires |-> 0]

-----------------------------------------------------------------------------
\* What is kept of a friend record.
Normalized(r) ==
    LET hidden == IF r.relationship = "Blocked"
                  THEN [r EXCEPT !.joinable = FALSE, !.content = NoContent, !.presence = "Offline"] ELSE r
    IN  IF hidden.relationship # "Friends" THEN [hidden EXCEPT !.joinable = FALSE] ELSE hidden

ApplyFriendRecord ==
    \E f \in People, r \in FriendRecord :
        /\ Normalized(r).joinable => r.content # NoContent
        /\ friends' = [friends EXCEPT ![f] = Normalized(r)]
        /\ UNCHANGED <<party, join, joined, clock>>

AccountsOf(members) == {members[i].account : i \in DOMAIN members}
Leaders(members) == {i \in DOMAIN members : members[i].leader}

\* A mutant does not look for an account that is listed twice.
OneLeader(p) == Cardinality(Leaders(p.members)) = 1 /\ Self \in AccountsOf(p.members)
ValidParty(p) == OneLeader(p) /\ Cardinality(AccountsOf(p.members)) = Len(p.members)

ApplyParty ==
    \E p \in Party :
        /\ ValidParty(p)
        /\ party' = p
        /\ UNCHANGED <<friends, join, joined, clock>>

Authorize ==
    \E p \in Parties, a \in People \cup {Self}, c \in Joinable, t \in 1 .. MaxClock :
        /\ join = NoJoin
        /\ join' = [party |-> p, account |-> a, content |-> c, expires |-> t]
        /\ UNCHANGED <<friends, party, joined, clock>>

\* A mutant does not ask whether the account is in the party.
ForTarget(a, p) ==
    /\ a.party = p.id /\ a.content # NoContent
    /\ a.expires > clock
    /\ p.target = NoContent \/ a.content = p.target
ValidateJoin(a, p) == ForTarget(a, p) /\ a.account \in AccountsOf(p.members)

\* The page asks about the party there is now, and forgets an authorization it has used.
Join ==
    /\ join # NoJoin
    /\ join' = NoJoin
    /\ joined' = IF ValidateJoin(join, party)
                 THEN [by |-> join.account, content |-> join.content, party |-> party, late |-> clock >= join.expires]
                 ELSE joined
    /\ UNCHANGED <<friends, party, clock>>

ClockTick == clock < MaxClock /\ clock' = clock + 1 /\ UNCHANGED <<friends, party, join, joined>>

SocialInit ==
    /\ friends = [f \in People |-> NoRecord]
    /\ party = EmptyParty /\ join = NoJoin /\ clock = 0
    /\ joined = [by |-> Self, content |-> NoContent, party |-> EmptyParty, late |-> FALSE]

SocialNext == ApplyFriendRecord \/ ApplyParty \/ Authorize \/ Join \/ ClockTick
SocialSpec == SocialInit /\ [][SocialNext]_socialVars

-----------------------------------------------------------------------------
SocialTypeOK ==
    /\ friends \in [People -> FriendRecord]
    /\ party \in Party \cup {EmptyParty}
    /\ join.expires \in Nat /\ clock \in Nat

\* Only a friend can be joined, in a game that is known, and nothing of what somebody who is
\* blocked does is shown; the account is in its party once, and one member leads it.
CachesAreSound ==
    /\ \A f \in People :
          /\ friends[f].joinable => friends[f].relationship = "Friends" /\ friends[f].content # NoContent
          /\ friends[f].relationship = "Blocked" => friends[f].presence = "Offline" /\ friends[f].content = NoContent
    /\ party # EmptyParty =>
          /\ Cardinality({i \in DOMAIN party.members : party.members[i].account = Self}) = 1
          /\ Cardinality(Leaders(party.members)) = 1

\* Who has joined was in the party, and for the game that the party was about, however the
\* party changed between the authorization and the joining.
JoinsAreOfMembers ==
    joined.content # NoContent =>
        /\ joined.by \in AccountsOf(joined.party.members)
        /\ joined.party.target \in {NoContent, joined.content}
        /\ ~joined.late

SocialIsSound == CachesAreSound /\ JoinsAreOfMembers
=============================================================================
