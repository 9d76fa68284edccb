------------------------------ MODULE LivePage ------------------------------
(***************************************************************************)
(* How an open page of the dashboard follows a campaign: its regions fetch *)
(* themselves again when the event stream tells of a change and every few  *)
(* seconds, until an answer says that there is nothing left to wait for;   *)
(* the stream closes itself then too (dashboard/app.py).  Each answer is   *)
(* made in one read transaction.  The browser's side is external.          *)
(***************************************************************************)
EXTENDS Naturals

CONSTANTS
  Region,        \* regions of the page that refresh themselves
  MaxRevision,   \* bound on the campaign's events
  MaxLost        \* bound on the requests and streams that get lost

VARIABLES
  campaign,      \* revision, whether it is done, since when, and whether it was taken up again
  events,        \* the stream: what it announced last and its snapshot
  region,        \* the regions: what they show and the answer on its way
  lost           \* requests and streams lost so far

pageVars == <<campaign, events, region, lost>>

Snap == [revision |-> campaign.revision, done |-> campaign.done]
NoSnap == [revision |-> 0, done |-> FALSE]

\* The page is served, with all its regions.
PageInit ==
  /\ \E finished \in BOOLEAN :
       /\ campaign = [revision |-> 1, done |-> finished, since |-> 1, again |-> FALSE]
       /\ region = [r \in Region |->
            [pc |-> IF finished THEN "stopped" ELSE "shown", shown |-> 1, read |-> NoSnap]]
  /\ events = [pc |-> "connect", previous |-> 0, read |-> NoSnap]
  /\ lost = 0

-----------------------------------------------------------------------------
\* A transaction of the controller with its event; a command may start work again.
Advance(done) ==
  /\ campaign.revision < MaxRevision
  /\ campaign' = [revision |-> campaign.revision + 1, done |-> done,
                  since |-> IF campaign.done THEN campaign.since ELSE campaign.revision + 1,
                  again |-> campaign.again \/ (campaign.done /\ ~done)]
  /\ UNCHANGED <<events, region, lost>>

\* The stream is opened, or opened again: it starts from nothing.
Connect ==
  /\ events.pc = "connect"
  /\ events' = [events EXCEPT !.pc = "begin", !.previous = 0]
  /\ UNCHANGED <<campaign, region, lost>>

\* notification_snapshot: a transaction begins.
Sample ==
  /\ events.pc = "begin"
  /\ events' = [events EXCEPT !.pc = "announce", !.read = Snap]
  /\ UNCHANGED <<campaign, region, lost>>

Waiting == {r \in Region : region[r].pc = "shown"}
Triggered(rs) == [r \in Region |-> IF r \in rs THEN [region[r] EXCEPT !.pc = "asked"] ELSE region[r]]

\* notifications: a change is announced, then the end.
Announce ==
  /\ events.pc = "announce"
  /\ events' = [events EXCEPT !.previous = events.read.revision,
                  !.pc = IF events.read.done THEN "complete" ELSE "begin"]
  /\ region' = Triggered(IF events.read.revision # events.previous THEN Waiting ELSE {})
  /\ UNCHANGED <<campaign, lost>>

\* "every 5s", next to the stream's events; without a stream "every 3s".
Timer(r) ==
  /\ r \in Waiting /\ region' = Triggered({r})
  /\ UNCHANGED <<campaign, events, lost>>

\* data.read begins the transaction in which the region is prepared.
BeginRead(r) ==
  /\ region[r].pc = "asked"
  /\ region' = [region EXCEPT ![r].pc = "read", ![r].read = Snap]
  /\ UNCHANGED <<campaign, events, lost>>

\* Mutant: the end is looked up after the content.
RespondLive(r) ==
  /\ region[r].pc = "read"
  /\ region' = [region EXCEPT ![r] =
       [pc |-> IF campaign.done THEN "stopped" ELSE "shown", shown |-> region[r].read.revision, read |-> NoSnap]]
  /\ UNCHANGED <<campaign, events, lost>>
\* The region is replaced; with "done" it has no trigger any more.
Respond(r) ==
  /\ region[r].pc = "read"
  /\ region' = [region EXCEPT ![r] =
       [pc |-> IF region[r].read.done THEN "stopped" ELSE "shown",
        shown |-> region[r].read.revision, read |-> NoSnap]]
  /\ UNCHANGED <<campaign, events, lost>>

\* A request fails; the stream breaks.
LoseRequest(r) ==
  /\ region[r].pc \in {"asked", "read"} /\ lost < MaxLost
  /\ region' = [region EXCEPT ![r].pc = "shown", ![r].read = NoSnap]
  /\ lost' = lost + 1
  /\ UNCHANGED <<campaign, events>>
LoseStream ==
  /\ events.pc \in {"begin", "announce"} /\ lost < MaxLost
  /\ events' = [events EXCEPT !.pc = "connect"]
  /\ lost' = lost + 1
  /\ UNCHANGED <<campaign, region>>

RefreshRegion(r) == Timer(r) \/ BeginRead(r) \/ Respond(r)
PageNext ==
  \/ \E done \in BOOLEAN : Advance(done)
  \/ Connect \/ Sample \/ Announce
  \/ \E r \in Region : RefreshRegion(r)
  \/ \E r \in Region : LoseRequest(r)
  \/ LoseStream

PageSpec == PageInit /\ [][PageNext]_pageVars

\* The browser's timers fire and its requests are answered.
PageFairness == \A r \in Region : WF_pageVars(RefreshRegion(r))

-----------------------------------------------------------------------------
\* Nothing is left out at the end: a region that stopped shows everything up to
\* the transaction that ended the campaign, unless a command has taken it up again.
StoppedIsFinal ==
  \A r \in Region : region[r].pc = "stopped" /\ ~campaign.again =>
    campaign.done /\ region[r].shown >= campaign.since

\* The stream announces that transaction before it says that it is complete.
CompleteAnnounced ==
  events.pc = "complete" /\ ~campaign.again =>
    campaign.done /\ events.previous >= campaign.since

\* A page comes to show the last state of the campaign, whatever breaks on the
\* way, unless it stopped before the campaign was taken up again.
PageCatchesUp ==
  <>[](\/ campaign.again
       \/ \A r \in Region :
            region[r].shown = campaign.revision
              \/ (region[r].pc = "stopped" /\ region[r].shown >= campaign.since))

\* Neither a region nor the stream stops before the end was shown.
EndIsShown == StoppedIsFinal /\ CompleteAnnounced
=============================================================================
