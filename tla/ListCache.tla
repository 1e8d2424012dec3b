------------------------------ MODULE ListCache ------------------------------
(***************************************************************************)
(* The local cache of one catalog's listing (src/catalog/cache.go), used   *)
(* by `catalog list` and `catalog search`: one file that any number of     *)
(* clients read and rewrite, with no lock and no rename.  A client serves  *)
(* the file while it is younger than TTL, revalidates it by its ETag when  *)
(* it is older, and falls back to it when the fetch fails.                 *)
(*                                                                         *)
(* A listing is named by the URL it was served at and its revision there;  *)
(* revisions of different URLs may have equal ETags.  `now` is real time,  *)
(* which the properties speak of; the code only sees the wall clock.       *)
(***************************************************************************)
EXTENDS Integers, FiniteSets

CONSTANTS
    Clients,    \* processes that list the catalog
    URLs,       \* values of the repository's ListURL
    Untagged,   \* revisions whose response has no ETag header
    TTL,        \* DefaultListCacheTTL
    Timeout,    \* how long the HTTP client waits for a response
    Faults,     \* what may go wrong or change
    MaxFaults,  \* bound: how many faults a behaviour has
    MaxNews,    \* bound: how often a listing changes
    MaxCalls,   \* bound: how many calls it has
    MaxTime     \* bound: how far time goes

ASSUME ListCacheAssumption ==
    /\ URLs # {}
    /\ Untagged \subseteq 1 .. 1 + MaxNews
    /\ TTL \in Nat \ {0} /\ Timeout \in Nat \ {0}
    /\ MaxFaults \in Nat /\ MaxNews \in Nat /\ MaxCalls \in Nat /\ MaxTime \in Nat

VARIABLES
    config,     \* the ListURL that is configured
    listing,    \* the revision each URL serves
    gone,       \* history: when a revision was superseded
    file,       \* the cache file
    call,       \* each client's CachedListIn
    now,        \* real time
    skew,       \* wall clock minus real time
    upset,      \* history: "setback" of the clock, "lied" by the server
    floor,      \* history: the newest revision a call that ran alone returned
    shown,      \* history: what a call returned in the last step
    news, calls, faults

server == <<config, listing, gone>>
clock == <<now, skew>>
bounds == <<news, calls, faults>>
vars == <<server, file, call, clock, upset, floor, shown, bounds>>
-----------------------------------------------------------------------------
MaxRev == 1 + MaxNews
Revs == 1 .. MaxRev
NoRev == 0
NoTag == 0
Never == MaxTime + 1

Names == URLs \X Revs

\* listCacheEntry; Empty is a file that was opened and not yet written, Torn
\* one with something in it that json.Unmarshal refuses.
Entry == [url: URLs, tag: 0 .. MaxRev, at: Int, names: Names]
Absent == [file |-> "absent"]
Empty == [file |-> "empty"]
Torn == [file |-> "torn"]
NoFile == {Absent, Empty, Torn}
NoEntry == [file |-> "none"]
NoURL == "none"

Modes == {"cached", "live"}     \* --no-cache is "live"
Served == {"fresh", "revalidated", "fetched", "stale"}
Errors == {"error", "timeout", "cancelled"}

NoCall ==
    [pc |-> "idle", mode |-> "cached", url |-> NoURL, entry |-> NoEntry, sent |-> 0,
     answer |-> NoEntry, kind |-> "none", late |-> 0, low |-> NoRev, alone |-> FALSE]
NoResult == [kind |-> "none"]

Wall == now + skew
TagOf(r) == IF r \in Untagged THEN NoTag ELSE r
At(c, pc) == call[c].pc = pc
Running(c) == ~At(c, "idle")
TagSent(c) == IF call[c].entry = NoEntry THEN NoTag ELSE call[c].entry.tag

\* The file may be one that an earlier call has left.
Init ==
    /\ config \in URLs
    /\ listing = [u \in URLs |-> 1]
    /\ gone = [u \in URLs |-> [r \in Revs |-> Never]]
    /\ file \in NoFile \cup {[url |-> u, tag |-> TagOf(1), at |-> 0, names |-> <<u, 1>>] : u \in URLs}
    /\ call = [c \in Clients |-> NoCall]
    /\ now = 0 /\ skew = 0
    /\ upset = {}
    /\ floor = [u \in URLs |-> NoRev]
    /\ shown = NoResult
    /\ news = MaxNews /\ calls = MaxCalls /\ faults = MaxFaults

\* A step in which no call returns.
Quiet == shown' = NoResult /\ UNCHANGED floor

Fault(f) == f \in Faults /\ faults > 0 /\ faults' = faults - 1
-----------------------------------------------------------------------------
\* CatalogList loads the repository and calls CachedListIn.
Begin(c, mode) ==
    /\ At(c, "idle") /\ calls > 0
    /\ calls' = calls - 1
    /\ call' = [d \in Clients |->
         IF d = c
         THEN [NoCall EXCEPT !.pc = IF mode = "cached" THEN "load" ELSE "send", !.mode = mode,
                             !.url = config, !.low = floor[config],
                             !.alone = \A e \in Clients \ {c} : ~Running(e)]
         ELSE [call[d] EXCEPT !.alone = FALSE]]
    /\ Quiet
    /\ UNCHANGED <<server, file, clock, upset, news, faults>>

\* How long ago the listing was superseded.
Late(names) == IF gone[names[1]][names[2]] < now THEN now - gone[names[1]][names[2]] ELSE 0

\* CachedListIn returns the names.  A call that ran alone, and left a cache
\* file that holds what it returned, sets the floor.
Return(c, kind, names, late, saved) ==
    /\ call' = [call EXCEPT ![c] = NoCall]
    /\ shown' = [kind |-> kind, names |-> names, late |-> late, url |-> call[c].url,
                 mode |-> call[c].mode, low |-> call[c].low]
    /\ floor' = IF saved /\ call[c].alone THEN [floor EXCEPT ![names[1]] = names[2]] ELSE floor

\* It returns an error.
Refuse(c, kind) ==
    /\ call' = [call EXCEPT ![c] = NoCall]
    /\ shown' = [kind |-> kind, had |-> call[c].entry # NoEntry]
    /\ UNCHANGED floor

\* loadListCache, and the check of the entry's age: a young entry is served
\* without network; an older one, and one from the future, is kept.
UseEntry(c, hit) ==
    LET age == Wall - file.at
    IN /\ At(c, "load")
       /\ IF hit /\ age >= 0 /\ age < TTL
          THEN Return(c, "fresh", file.names, Late(file.names), TRUE)
          ELSE /\ call' = [call EXCEPT ![c].pc = "send", ![c].entry = IF hit THEN file ELSE NoEntry]
               /\ Quiet
       /\ UNCHANGED <<server, file, clock, upset, bounds>>

\* Slip: an entry of another ListURL is used.
LoadAny(c) == UseEntry(c, file \notin NoFile)

\* What cannot be parsed, or is of another ListURL, is a miss.
Load(c) == UseEntry(c, file \notin NoFile /\ file.url = call[c].url)
-----------------------------------------------------------------------------
\* doListRequest: the request, with the entry's ETag when there is one.
Send(c) ==
    /\ At(c, "send")
    /\ call' = [call EXCEPT ![c].pc = "await", ![c].sent = now]
    /\ Quiet
    /\ UNCHANGED <<server, file, clock, upset, bounds>>

\* The server answers 304 when the ETag is that of its current listing, and
\* the listing otherwise; the answer may arrive much later.
Answer(c) ==
    LET u == call[c].url
        r == listing[u]
        same == TagSent(c) # NoTag /\ TagSent(c) = TagOf(r)
    IN /\ At(c, "await") /\ call[c].answer = NoEntry
       /\ call' = [call EXCEPT ![c].answer =
            IF same THEN [status |-> 304] ELSE [status |-> 200, names |-> <<u, r>>, tag |-> TagOf(r)]]
       /\ Quiet
       /\ UNCHANGED <<server, file, clock, upset, bounds>>

\* A broken server or proxy answers 304 to a request without an ETag.
AnswerWrongly(c) ==
    /\ Fault("answer")
    /\ At(c, "await") /\ call[c].answer = NoEntry /\ TagSent(c) = NoTag
    /\ call' = [call EXCEPT ![c].answer = [status |-> 304]]
    /\ upset' = upset \cup {"lied"}
    /\ Quiet
    /\ UNCHANGED <<server, file, clock, news, calls>>

\* The entry to save, and what will be returned.
Save(c, kind, entry) ==
    /\ call' = [call EXCEPT ![c].pc = "open", ![c].kind = kind, ![c].entry = entry,
                            ![c].answer = NoEntry, ![c].late = Late(entry.names)]
    /\ Quiet

\* 200: the listing is the result, and a new entry is saved.
Receive(c) ==
    LET answer == call[c].answer
    IN /\ At(c, "await") /\ answer # NoEntry /\ answer.status = 200
       /\ Save(c, "fetched", [url |-> call[c].url, tag |-> answer.tag, at |-> Wall,
                              names |-> answer.names])
       /\ UNCHANGED <<server, file, clock, upset, bounds>>

\* 304: the entry is saved with a new time, unless there is none.
ReceiveNotModified(c) ==
    /\ At(c, "await") /\ call[c].answer # NoEntry /\ call[c].answer.status = 304
    /\ IF call[c].entry = NoEntry
       THEN Refuse(c, "error")
       ELSE Save(c, "revalidated", [call[c].entry EXCEPT !.at = Wall])
    /\ UNCHANGED <<server, file, clock, upset, bounds>>

\* The request fails, or its answer is not a listing: an old entry is served
\* instead.
FetchFails(c) ==
    /\ Fault("fetch")
    /\ At(c, "await")
    /\ IF call[c].entry = NoEntry
       THEN Refuse(c, "error")
       ELSE Return(c, "stale", call[c].entry.names, Late(call[c].entry.names), FALSE)
    /\ UNCHANGED <<server, file, clock, upset, news, calls>>

\* The caller's context is cancelled: no entry is served.
Cancel(c) ==
    /\ Fault("cancel")
    /\ At(c, "await")
    /\ Refuse(c, "cancelled")
    /\ UNCHANGED <<server, file, clock, upset, news, calls>>

\* The HTTP client gives up.  Its error is a context.DeadlineExceeded to
\* errors.Is, so that no entry is served either.
TimesOut(c) ==
    /\ At(c, "await") /\ now - call[c].sent >= Timeout
    /\ Refuse(c, "timeout")
    /\ UNCHANGED <<server, file, clock, upset, bounds>>
-----------------------------------------------------------------------------
Finish(c, saved) == Return(c, call[c].kind, call[c].entry.names, call[c].late, saved)

\* Slip: --no-cache does not rewrite the cache.
OpenCachedOnly(c) ==
    /\ At(c, "open")
    /\ IF call[c].mode = "live"
       THEN Finish(c, TRUE) /\ UNCHANGED file
       ELSE file' = Empty /\ call' = [call EXCEPT ![c].pc = "write"] /\ Quiet
    /\ UNCHANGED <<server, clock, upset, bounds>>

\* saveListCache: the directory is made and the file opened, which empties it ...
Open(c) ==
    /\ At(c, "open")
    /\ file' = Empty
    /\ call' = [call EXCEPT ![c].pc = "write"]
    /\ Quiet
    /\ UNCHANGED <<server, clock, upset, bounds>>

OpenFails(c) ==
    /\ Fault("open")
    /\ At(c, "open")
    /\ Finish(c, FALSE)
    /\ UNCHANGED <<server, file, clock, upset, news, calls>>

\* ... and written.  Over the longer entry of a client that opened the file
\* too and wrote first, the end of that entry remains.
Write(c) ==
    /\ At(c, "write")
    /\ file' \in {call[c].entry} \cup (IF file = Empty THEN {} ELSE {Torn})
    /\ Finish(c, TRUE)
    /\ UNCHANGED <<server, clock, upset, bounds>>

\* A write that fails is ignored.
WriteFails(c) ==
    /\ Fault("write")
    /\ At(c, "write")
    /\ file' \in {file, Torn}
    /\ Finish(c, FALSE)
    /\ UNCHANGED <<server, clock, upset, news, calls>>

\* The process is killed.
Crash(c) ==
    /\ Fault("crash")
    /\ Running(c)
    /\ call' = [call EXCEPT ![c] = NoCall]
    /\ Quiet
    /\ UNCHANGED <<server, file, clock, upset, news, calls>>
-----------------------------------------------------------------------------
\* The catalog at u changes.
Publish(u) ==
    /\ news > 0
    /\ news' = news - 1
    /\ listing' = [listing EXCEPT ![u] = @ + 1]
    /\ gone' = [gone EXCEPT ![u][listing[u]] = now]
    /\ Quiet
    /\ UNCHANGED <<config, file, call, clock, upset, calls, faults>>

\* The operator edits the .catalog file.
Configure(u) ==
    /\ Fault("configure")
    /\ u # config
    /\ config' = u
    /\ Quiet
    /\ UNCHANGED <<listing, gone, file, call, clock, upset, news, calls>>

\* Time passes, never past the moment a client gives up.
Tick ==
    /\ now < MaxTime
    /\ \A c \in Clients : At(c, "await") => now - call[c].sent < Timeout
    /\ now' = now + 1
    /\ Quiet
    /\ UNCHANGED <<server, file, call, skew, upset, bounds>>

\* The wall clock is set.
SetClock(s) ==
    /\ Fault("clock")
    /\ s # skew
    /\ skew' = s
    /\ upset' = IF s < skew THEN upset \cup {"setback"} ELSE upset
    /\ Quiet
    /\ UNCHANGED <<server, file, call, now, news, calls>>

Next ==
    \/ \E c \in Clients :
         \/ \E mode \in Modes : Begin(c, mode)
         \/ Load(c) \/ Send(c)
         \/ Answer(c) \/ AnswerWrongly(c)
         \/ Receive(c) \/ ReceiveNotModified(c) \/ FetchFails(c) \/ Cancel(c) \/ TimesOut(c)
         \/ Open(c) \/ OpenFails(c) \/ Write(c) \/ WriteFails(c) \/ Crash(c)
    \/ \E u \in URLs : Publish(u) \/ Configure(u)
    \/ Tick
    \/ \E s \in {-1, 0, 1} : SetClock(s)

Spec == Init /\ [][Next]_vars
-----------------------------------------------------------------------------
\* How old what a call returns may be: a 304 or a 200 is as old as the
\* response was slow, a fresh entry less than TTL older.  (A clock that is set
\* back makes entries look younger, and an undue 304 makes them so.)
Recent(result) ==
    IF result.kind = "fresh" THEN result.late < TTL + Timeout ELSE result.late <= Timeout

\* What a call returns is a listing of the ListURL it was configured with, and,
\* unless it says that it is stale, one that the server still had within the
\* TTL: whatever was cached for another URL, torn, overwritten by a slower
\* client or cut short by a crash.  A stale listing is only ever one that a
\* call that may use the cache has found in it.
ServedIsRecent ==
    shown.kind \in Served =>
      /\ shown.names[1] = shown.url
      /\ shown.names[2] <= listing[shown.url]
      /\ shown.kind # "fetched" => shown.mode = "cached"
      /\ (shown.kind # "stale" /\ upset = {}) => Recent(shown)

\* Once a call that no other overlapped has returned a listing and saved it, no
\* later call returns an older one of that URL: not when calls overlap, fail,
\* are killed, or fall back to a stale entry, and not under any clock.
NeverGoesBack == shown.kind \in Served => shown.names[2] >= shown.low

\* "when a live fetch fails (offline, rate-limited) an expired cache is served
\* with a warning so listing keeps working": a call that had an entry returns
\* an error only when its caller cancelled it.
OfflineServesStale == (shown.kind \in Errors /\ shown.had) => shown.kind = "cancelled"
=============================================================================
