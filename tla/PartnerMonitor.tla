--------------------------- MODULE PartnerMonitor ---------------------------
(***************************************************************************)
(* The LinkedIn monitor: sweeps, the scheduled one and those a request     *)
(* starts, fetch what the watched profiles posted, keep the posts that     *)
(* match as signals and alert them; and the search by keyword that keeps   *)
(* other people's posts.  linkedin_monitor.py, reverse_discovery.py and    *)
(* their routes.                                                           *)
(*                                                                         *)
(* Time is the number of posts there are: a post is its place in `posts`,  *)
(* and a stamp the number of posts that were there when it was taken.      *)
(***************************************************************************)
EXTENDS Naturals, Sequences, FiniteSets

CONSTANTS
  Monitors,        \* sweeps that may be under way at once
  Watched,         \* profiles: an initial segment of the positive naturals, in the order of their ids
  PerBatch,        \* PROFILES_PER_BATCH
  PerSource,       \* limit_per_source: posts the search returns of a profile, newest first
  Lookback,        \* INITIAL_LOOKBACK_DAYS, in posts
  Terms,           \* keywords of the search
  MaxPosts,        \* bound: posts
  MaxMishaps       \* bound: failing searches, alerts and crashes, profiles edited, sweeps begun beside another

ASSUME MonitorAssumption ==
  /\ Watched \subseteq Nat \ {0} /\ PerBatch \in Nat \ {0} /\ PerSource \in Nat \ {0}
  /\ Lookback \in Nat /\ MaxPosts \in Nat \ {0, 1} /\ MaxMishaps \in Nat

VARIABLES
  posts,        \* who posted what matches the keywords: other posts are passed over
  profiles,     \* linkedin_monitor_profiles
  signals,      \* linkedin_monitor_signals
  candidates,   \* reverse_discovery_candidates
  monitor,      \* what a sweep is at
  alerts,       \* ghost: how often each post was alerted
  asked,        \* ghost: how often the search paid for an opinion of each post
  excused,      \* ghost: posts a search did not return: beyond its limit, or from before a first check
  scene,        \* what a behaviour is about: the monitor, or the search by keyword
  mishaps, monitorFaults   \* how many there were, and of them faults

monitorVars == <<posts, profiles, signals, candidates, monitor, alerts, asked, excused, scene, mishaps, monitorFaults>>

Now == Len(posts)
Unchecked == MaxPosts + 1        \* last_checked_at IS NULL
Action == {"engage", "monitor", "ignore"}

Profile == [is : {"none", "active", "paused"}, checked : 0..Unchecked]
NoProfile == [is |-> "none", checked |-> Unchecked]

LinkedinMonitorSignal == [post : Nat, action : Action, alerted : BOOLEAN]

ReverseDiscoveryCandidate == [post : Nat, after : Nat]

Resting == [pc |-> "off", now |-> 0, left |-> {}, batch |-> {}, found |-> {}, post |-> 0, action |-> "ignore"]

MonitorInit ==
  /\ scene \in {"monitor", "search"}
  /\ posts = IF scene = "search" THEN <<0, 0>> ELSE <<>>
  /\ \E other \in {NoProfile, [is |-> "paused", checked |-> 0]} :
       profiles = [p \in Watched |-> IF p = 1 THEN [is |-> "active", checked |-> Unchecked] ELSE other]
  /\ signals = {} /\ candidates = {}
  /\ monitor = [m \in Monitors |-> Resting]
  /\ alerts = [i \in 1..MaxPosts |-> 0] /\ asked = [i \in 1..MaxPosts |-> 0]
  /\ excused = {} /\ mishaps = 0 /\ monitorFaults = 0

Active == {p \in Watched : profiles[p].is = "active"}
Least(S) == CHOOSE p \in S : \A q \in S : p <= q
FirstOf(S, n) == {p \in S : Cardinality({q \in S : q < p}) < n}
By(p) == {i \in DOMAIN posts : posts[i] = p}
Kept == {s.post : s \in signals}

(* What follows for the sweep, which forgets the post it is done with.     *)
Follow(m, pc) ==
  monitor' = [monitor EXCEPT ![m].pc = pc, ![m].action = "ignore", ![m].post = IF pc = "posts" THEN 0 ELSE @]

Mishap == mishaps < MaxMishaps /\ mishaps' = mishaps + 1
Blunder == Mishap /\ monitorFaults' = monitorFaults + 1

-----------------------------------------------------------------------------
(* A watched profile posts; 0 is somebody else.                            *)
Post(p) ==
  /\ scene = "monitor" /\ Now < MaxPosts
  /\ posts' = Append(posts, p)
  /\ UNCHANGED <<profiles, signals, candidates, monitor, alerts, asked, excused, mishaps, monitorFaults>>

(* An operator adds a profile, pauses or resumes it, or deletes it, which  *)
(* its signals forbid.                                                     *)
EditProfile(p, is) ==
  /\ scene = "monitor" /\ profiles[p].is # is /\ Mishap
  /\ is = "none" => By(p) \cap Kept = {}
  /\ is = "paused" => profiles[p].is = "active"
  /\ profiles' = [profiles EXCEPT ![p] = IF is = "none" THEN NoProfile ELSE [@ EXCEPT !.is = is]]
  /\ UNCHANGED <<posts, signals, candidates, monitor, alerts, asked, excused, monitorFaults>>

-----------------------------------------------------------------------------
(* The switch of the schedule, the profiles and the time are read once.    *)
Begin(m, pc, left) ==
  /\ monitor[m].pc = "off" /\ UNCHANGED monitorFaults
  /\ IF \E n \in Monitors : monitor[n].pc # "off" THEN Mishap ELSE UNCHANGED mishaps
  /\ monitor' = [monitor EXCEPT ![m] = [Resting EXCEPT !.pc = pc, !.now = Now, !.left = left]]

StartMonitor(m) ==
  /\ scene = "monitor" /\ Active # {} /\ Begin(m, "batch", Active)
  /\ UNCHANGED <<posts, profiles, signals, candidates, alerts, asked, excused>>

(* From when on posts are asked for: the oldest stamp of the batch, and    *)
(* only when it has none the initial lookback.                             *)
Since(batch, now) ==
  LET cutoffs == {profiles[p].checked : p \in {q \in batch : profiles[q].checked # Unchecked}}
  IN IF cutoffs # {} THEN Least(cutoffs) ELSE IF now > Lookback THEN now - Lookback ELSE 0

(* What the search returns of a profile: the newest of its newer posts.    *)
Returned(p, since) ==
  LET newer == {i \in By(p) : i > since} IN {i \in newer : Cardinality({j \in newer : j > i}) < PerSource}

(* A profile that is gone makes the session raise: the sweep ends.  Past   *)
(* are the posts that the search cannot return however it is asked, and    *)
(* those from before a profile's first check.                              *)
Fetch(m) ==
  LET batch == FirstOf(monitor[m].left, PerBatch)
      since == Since(batch, monitor[m].now)
      got == UNION {Returned(p, since) : p \in batch}
      past == UNION {{i \in By(p) : \/ profiles[p].checked = Unchecked /\ i <= since
                                    \/ Cardinality({j \in By(p) : j > i}) >= PerSource} : p \in batch}
  IN /\ monitor[m].pc = "batch" /\ monitor[m].left # {}
     /\ IF \A p \in batch : profiles[p].is # "none"
        THEN /\ monitor' = [monitor EXCEPT ![m].pc = "posts", ![m].batch = batch, ![m].found = got,
                                           ![m].left = @ \ batch]
             /\ excused' = excused \cup past
        ELSE monitor' = [monitor EXCEPT ![m] = Resting] /\ UNCHANGED excused
     /\ UNCHANGED <<posts, profiles, signals, candidates, alerts, asked, mishaps, monitorFaults>>

(* As if the batch was stamped all the same.                               *)
BugFailBatch(m) ==
  profiles' = [p \in Watched |-> IF p \in FirstOf(monitor[m].left, PerBatch) /\ profiles[p].is # "none"
                                 THEN [profiles[p] EXCEPT !.checked = monitor[m].now] ELSE profiles[p]]

(* A failing search leaves the batch unchecked, for the next sweep.        *)
FailBatch(m) == UNCHANGED profiles

FetchFails(m) ==
  /\ monitor[m].pc = "batch" /\ monitor[m].left # {} /\ Blunder /\ FailBatch(m)
  /\ monitor' = [monitor EXCEPT ![m].left = @ \ FirstOf(@, PerBatch)]
  /\ UNCHANGED <<posts, signals, candidates, alerts, asked, excused>>

MonitorEnds(m) ==
  /\ monitor[m].pc = "batch" /\ monitor[m].left = {}
  /\ monitor' = [monitor EXCEPT ![m] = Resting]
  /\ UNCHANGED <<posts, profiles, signals, candidates, alerts, asked, excused, mishaps, monitorFaults>>

(* A post that is a signal already is passed over; the others are          *)
(* classified, which commits, and a classifier that fails      *)
(* says "monitor".                                                         *)
TakePost(m, i) ==
  LET rest == monitor[m].found \ {i}
  IN /\ monitor[m].pc = "posts" /\ i \in monitor[m].found
     /\ IF i \in Kept
        THEN monitor' = [monitor EXCEPT ![m].found = rest]
        ELSE \E action \in {"engage", "ignore"} :
               monitor' = [monitor EXCEPT ![m].found = rest, ![m].pc = "signal", ![m].post = i, ![m].action = action]
     /\ UNCHANGED <<posts, profiles, signals, candidates, alerts, asked, excused, mishaps, monitorFaults>>

(* As the insert would without the unique index.                           *)
BugKeepSignal(m) ==
  /\ signals' = signals \cup {[post |-> monitor[m].post, action |-> monitor[m].action, alerted |-> FALSE]}
  /\ Follow(m, IF monitor[m].action = "ignore" THEN "posts" ELSE "alert")

(* The row is committed before the alert.  The unique index refuses a      *)
(* second row for the post, and a profile that is gone any: either ends    *)
(* the sweep.                                                              *)
KeepSignal(m) ==
  LET i == monitor[m].post
  IN IF i \in Kept \/ profiles[posts[i]].is = "none"
     THEN monitor' = [monitor EXCEPT ![m] = Resting] /\ UNCHANGED signals
     ELSE /\ signals' = signals \cup {[post |-> i, action |-> monitor[m].action, alerted |-> FALSE]}
          /\ Follow(m, IF monitor[m].action = "ignore" THEN "posts" ELSE "alert")

StoreSignal(m) ==
  /\ monitor[m].pc = "signal" /\ KeepSignal(m)
  /\ UNCHANGED <<posts, profiles, candidates, alerts, asked, excused, mishaps, monitorFaults>>

(* The alert is sent, then recorded; one that Slack refuses is not tried   *)
(* again, for the post is known from now on.                               *)
SendAlert(m) ==
  /\ monitor[m].pc = "alert"
  /\ \/ /\ alerts' = [alerts EXCEPT ![monitor[m].post] = @ + 1] /\ Follow(m, "stamp") /\ UNCHANGED <<mishaps, monitorFaults>>
     \/ Blunder /\ Follow(m, "posts") /\ UNCHANGED alerts
  /\ UNCHANGED <<posts, profiles, signals, candidates, asked, excused>>

RecordAlert(m) ==
  /\ monitor[m].pc = "stamp" /\ Follow(m, "posts")
  /\ signals' = {IF s.post = monitor[m].post THEN [s EXCEPT !.alerted = TRUE] ELSE s : s \in signals}
  /\ UNCHANGED <<posts, profiles, candidates, alerts, asked, excused, mishaps, monitorFaults>>

(* As if stamped with the time at its end.                                 *)
BugStamp(m) == Now

(* The batch is stamped with the time the sweep began.                     *)
Stamp(m) == monitor[m].now

BatchDone(m) ==
  /\ monitor[m].pc = "posts" /\ monitor[m].found = {}
  /\ IF \A p \in monitor[m].batch : profiles[p].is # "none"
     THEN /\ profiles' = [p \in Watched |-> IF p \in monitor[m].batch THEN [profiles[p] EXCEPT !.checked = Stamp(m)] ELSE profiles[p]]
          /\ monitor' = [monitor EXCEPT ![m].pc = "batch", ![m].batch = {}]
     ELSE monitor' = [monitor EXCEPT ![m] = Resting] /\ UNCHANGED profiles
  /\ UNCHANGED <<posts, signals, candidates, alerts, asked, excused, mishaps, monitorFaults>>

MonitorCrash(m) ==
  /\ monitor[m].pc # "off" /\ Blunder
  /\ monitor' = [monitor EXCEPT ![m] = Resting]
  /\ UNCHANGED <<posts, profiles, signals, candidates, alerts, asked, excused>>

-----------------------------------------------------------------------------
(* The search by keyword: the posts of each keyword in turn, those of      *)
(* people who are not watched too.  `left` holds the keywords to come.     *)
StartSearch(m) ==
  /\ scene = "search" /\ Begin(m, "search", Terms)
  /\ UNCHANGED <<posts, profiles, signals, candidates, alerts, asked, excused>>

Search(m) ==
  /\ monitor[m].pc = "search"
  /\ IF monitor[m].left = {} THEN monitor' = [monitor EXCEPT ![m] = Resting] /\ UNCHANGED <<mishaps, monitorFaults>>
     ELSE LET term == Least(monitor[m].left)
          IN \/ /\ monitor' = [monitor EXCEPT ![m].pc = "results", ![m].left = @ \ {term}, ![m].found = DOMAIN posts]
                /\ UNCHANGED <<mishaps, monitorFaults>>
             \/ Blunder /\ monitor' = [monitor EXCEPT ![m].left = @ \ {term}]
  /\ UNCHANGED <<posts, profiles, signals, candidates, alerts, asked, excused>>

(* Only a candidate kept is known: an opinion of any other post is asked   *)
(* again by every search.                                                  *)
Known(i) == \E c \in candidates : c.post = i

Judge(m, i) ==
  /\ monitor[m].pc = "results" /\ i \in monitor[m].found
  /\ IF Known(i) THEN monitor' = [monitor EXCEPT ![m].found = @ \ {i}] /\ UNCHANGED asked
     ELSE /\ asked' = [asked EXCEPT ![i] = IF @ < 3 THEN @ + 1 ELSE @]
          /\ \/ monitor' = [monitor EXCEPT ![m].found = @ \ {i}]                   \* ignored, or a company's page
             \/ monitor' = [monitor EXCEPT ![m].found = @ \ {i}, ![m].pc = "candidate", ![m].post = i]
  /\ UNCHANGED <<posts, profiles, signals, candidates, alerts, excused, mishaps, monitorFaults>>

(* The author's company is looked up, and the row inserted; the unique     *)
(* index ends the search of whoever comes second.                          *)
StoreCandidate(m) ==
  /\ monitor[m].pc = "candidate"
  /\ IF Known(monitor[m].post) THEN monitor' = [monitor EXCEPT ![m] = Resting] /\ UNCHANGED candidates
     ELSE /\ candidates' = candidates \cup {[post |-> monitor[m].post, after |-> asked[monitor[m].post]]}
          /\ monitor' = [monitor EXCEPT ![m].pc = "results", ![m].post = 0]
  /\ UNCHANGED <<posts, profiles, signals, alerts, asked, excused, mishaps, monitorFaults>>

EndResults(m) ==
  /\ monitor[m].pc = "results" /\ monitor[m].found = {} /\ monitor' = [monitor EXCEPT ![m].pc = "search", ![m].post = 0]
  /\ UNCHANGED <<posts, profiles, signals, candidates, alerts, asked, excused, mishaps, monitorFaults>>

World ==
  \/ \E p \in Watched : Post(p)
  \/ \E p \in Watched, is \in {"none", "active", "paused"} : EditProfile(p, is)

MonitorSweep(m) ==
  \/ StartMonitor(m) \/ Fetch(m) \/ FetchFails(m) \/ MonitorEnds(m) \/ MonitorCrash(m)
  \/ \E i \in DOMAIN posts : TakePost(m, i)
  \/ StoreSignal(m) \/ SendAlert(m) \/ RecordAlert(m) \/ BatchDone(m)

KeywordSearch(m) ==
  \/ StartSearch(m) \/ Search(m) \/ StoreCandidate(m) \/ EndResults(m)
  \/ \E i \in DOMAIN posts : Judge(m, i)

MonitorNext == UNCHANGED scene /\ (World \/ \E m \in Monitors : MonitorSweep(m) \/ KeywordSearch(m))

MonitorSpec == MonitorInit /\ [][MonitorNext]_monitorVars

-----------------------------------------------------------------------------
MonitorTypeOK ==
  /\ posts \in Seq(Watched \cup {0}) /\ profiles \in [Watched -> Profile] 
  /\ signals \subseteq LinkedinMonitorSignal /\ Kept \subseteq DOMAIN posts /\ excused \subseteq DOMAIN posts
  /\ candidates \subseteq ReverseDiscoveryCandidate
  /\ monitorFaults <= mishaps /\ mishaps <= MaxMishaps

(* A post is alerted at most once, however many sweeps overlap or die: its *)
(* row is committed first, and the index lets one sweep have it            *)
(* (models.py: "never re-alerted once created").                           *)
AlertOnce == \A i \in DOMAIN alerts : alerts[i] <= 1

(* A profile's stamp never passes a matching post that was not kept, but   *)
(* for those beyond the search's limit and those from before the profile's *)
(* first check: neither a failing batch, nor a sweep that dies or begins   *)
(* late, nor the stamps of the others in its batch lose one.               *)
PostKept ==
  \A p \in Watched : \A i \in By(p) :
    profiles[p].is # "none" /\ profiles[p].checked # Unchecked /\ i <= profiles[p].checked => i \in Kept \cup excused

(* Without a fault, every signal that is not to be ignored was alerted     *)
(* once no sweep is at it.                                                 *)
AlertsFollow ==
  \A s \in signals :
    \/ s.alerted /\ alerts[s.post] = 1
    \/ s.action = "ignore" \/ monitorFaults > 0
    \/ \E m \in Monitors : monitor[m].post = s.post /\ monitor[m].pc \in {"alert", "stamp"}

(* No opinion is paid for of a post that was kept as a candidate.          *)
KeptIsKnown == \A c \in candidates : asked[c.post] = c.after

(* The rules of the monitor: no matching post is lost or alerted twice.    *)
MonitorHolds == MonitorTypeOK /\ AlertOnce /\ PostKept /\ AlertsFollow /\ KeptIsKnown
=============================================================================
