------------------------------- MODULE Gallery -------------------------------
(***************************************************************************)
(* What createContest() and updateImage() promise together, with no SQL    *)
(* statements, tables or sessions: a gallery of contests with two places   *)
(* each.  Whoever is admitted to a place may hang one picture there, with  *)
(* its thumbnail and under the own name, all at once.  An admission is     *)
(* used once, a picture is hung once, and either may be lost on the way;   *)
(* a contest is never taken away.                                          *)
(***************************************************************************)
EXTENDS Integers, Sequences

CONSTANTS
  Users,
  Visitors,   \* each has one admission at a time
  Numbers     \* the numbers that a request may give for a contest

None == 0
Public == -1
Locked == -2
Places == {1, 2}

VARIABLES
  contests,   \* the contests, in the order they were opened
  admitted,   \* the admission that each visitor has
  pictures    \* how many pictures were made

vars == <<contests, admitted, pictures>>

\* A picture is its owner and the number of the full-size picture it belongs
\* to: the same for the picture and for its thumbnail.
Picture(u, number) == [owner |-> u, of |-> number]
NoPicture == Picture(None, 0)

Entry(u, image, thumb) == [user |-> u, image |-> image, thumb |-> thumb]

\* An admission to place s of contest c, with the picture made for it.
Admission(u, c, s, picture) ==
  [user |-> u, contest |-> c, place |-> s, picture |-> picture]
NotAdmitted == Admission(None, 0, 0, NoPicture)

Init ==
  /\ contests = << >>
  /\ admitted = [v \in Visitors |-> NotAdmitted]
  /\ pictures = 0

\* A contest is opened; the first place is kept for whoever opens it.
Open(u, p) ==
  /\ contests' = Append(contests,
       [perm |-> p,
        place |-> [s \in Places |->
                     Entry(IF s = 1 THEN u ELSE None, NoPicture, NoPicture)]])
  /\ UNCHANGED <<admitted, pictures>>

\* Whom place s of a contest admits: its user, anybody while it is free, and
\* in a contest of the public or of friends anybody at any time.
Admits(contest, s, u) ==
  /\ contest.perm # Locked
  /\ contest.place[s].user \in {None, u} \/ contest.perm \in {None, Public}

\* A contest that is not open yet asks nothing.
Admit(v, u, c, s) ==
  /\ admitted[v] = NotAdmitted
  /\ c \in DOMAIN contests => Admits(contests[c], s, u)
  /\ admitted' = [admitted EXCEPT ![v] = Admission(u, c, s, NoPicture)]
  /\ UNCHANGED <<contests, pictures>>

\* A picture is made for an admission that has none.
Make(v) ==
  /\ admitted[v] # NotAdmitted /\ admitted[v].picture = NoPicture
  /\ pictures' = pictures + 1
  /\ admitted' = [admitted EXCEPT ![v].picture = Picture(admitted[v].user, pictures + 1)]
  /\ UNCHANGED contests

\* It is hung in its place, and the admission is used.
Hang(v) ==
  LET a == admitted[v]
  IN  /\ a.picture # NoPicture /\ a.contest \in DOMAIN contests
      /\ contests' = [contests EXCEPT ![a.contest].place[a.place] =
                        Entry(a.user, a.picture, a.picture)]
      /\ admitted' = [admitted EXCEPT ![v] = NotAdmitted]
      /\ UNCHANGED pictures

\* A picture is made that nobody will hang.
Waste ==
  /\ pictures' = pictures + 1
  /\ UNCHANGED <<contests, admitted>>

\* Admissions are lost, and a picture that was being made may be wasted.
Lose(V) ==
  /\ admitted' = [v \in Visitors |-> IF v \in V THEN NotAdmitted ELSE admitted[v]]
  /\ pictures' \in {pictures, pictures + 1}
  /\ UNCHANGED contests

Lock(c) ==
  /\ contests' = [contests EXCEPT ![c].perm = Locked]
  /\ UNCHANGED <<admitted, pictures>>

Next ==
  \/ \E V \in SUBSET Visitors : Lose(V)
  \/ \E u \in Users, p \in Users \cup {None, Public} : Open(u, p)
  \/ \E v \in Visitors, u \in Users, c \in Numbers, s \in Places : Admit(v, u, c, s)
  \/ \E v \in Visitors : Make(v) \/ Hang(v)
  \/ Waste
  \/ \E c \in DOMAIN contests : Lock(c)

Spec == Init /\ [][Next]_vars
=============================================================================
