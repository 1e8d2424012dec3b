--------------------------- MODULE ListCacheProofs ---------------------------
(***************************************************************************)
(* What a listing may be that a client returns, for any number of clients, *)
(* URLs, revisions and faults, and any TTL and timeout.  Every entry that  *)
(* is in the cache file or in the hands of a client is Sound: it is of the *)
(* URL it names, no newer than what that URL serves, no older than what a  *)
(* call that ran alone has returned of it, and - while no clock was set    *)
(* back and no server has lied - superseded for no longer than it is old.  *)
(***************************************************************************)
EXTENDS ListCache, TLAPS

Answers == [status : {304}] \cup [status : {200}, names : Names, tag : 0 .. MaxRev]

Call ==
    [pc : {"idle", "load", "send", "await", "open", "write"}, mode : Modes,
     url : URLs \cup {NoURL}, entry : Entry \cup {NoEntry}, sent : 0 .. MaxTime,
     answer : Answers \cup {NoEntry}, kind : {"none", "fetched", "revalidated"},
     late : 0 .. MaxTime, low : 0 .. MaxRev, alone : BOOLEAN]

Types ==
    /\ config \in URLs
    /\ listing \in [URLs -> Revs]
    /\ gone \in [URLs -> [Revs -> 0 .. Never]]
    /\ now \in 0 .. MaxTime /\ skew \in Int
    /\ floor \in [URLs -> 0 .. MaxRev]
    /\ news \in Nat
    /\ call \in [Clients -> Call]

\* A revision has been superseded if and only if there is a newer one, and
\* revisions are left for all the news to come; what a call has returned existed.
ServerInv ==
    \A u \in URLs :
      /\ floor[u] <= listing[u]
      /\ listing[u] + news <= MaxRev
      /\ \A r \in Revs : IF r >= listing[u] THEN gone[u][r] = Never ELSE gone[u][r] <= now

Sound(e) ==
    /\ e \in Entry
    /\ e.names[1] = e.url
    /\ e.names[2] <= listing[e.url]
    /\ floor[e.url] <= e.names[2]
    /\ e.tag = TagOf(e.names[2])
    /\ upset = {} =>
         /\ e.at <= Wall
         /\ now - gone[e.url][e.names[2]] <= Timeout + (Wall - e.at)

FileInv == file \notin NoFile => Sound(file)

\* What was the listing when the request was sent, or later.
SoundAnswer(r) ==
    /\ r.answer.status = 200 =>
         /\ r.answer.names \in Names
         /\ r.answer.tag \in 0 .. MaxRev
         /\ r.answer.names[1] = r.url
         /\ r.answer.tag = TagOf(r.answer.names[2])
         /\ r.answer.names[2] <= listing[r.url]
         /\ r.low <= r.answer.names[2]
         /\ r.sent <= gone[r.url][r.answer.names[2]]
    /\ (r.answer.status = 304 /\ upset = {}) =>
         /\ r.entry # NoEntry
         /\ r.sent <= gone[r.url][r.entry.names[2]]

SoundCall(r) ==
    /\ r.pc # "idle" => r.url \in URLs /\ r.low = floor[r.url]
    /\ r.pc = "load" => r.mode = "cached" /\ r.entry = NoEntry
    /\ r.entry # NoEntry => r.pc # "idle" /\ Sound(r.entry) /\ r.entry.url = r.url
    /\ (r.pc \in {"send", "await"} /\ r.entry # NoEntry) => r.mode = "cached"
    /\ r.pc = "await" => r.sent <= now /\ now <= r.sent + Timeout
    /\ r.answer # NoEntry => r.pc = "await" /\ SoundAnswer(r)
    /\ r.pc \in {"open", "write"} =>
         /\ r.entry # NoEntry
         /\ r.kind \in {"fetched", "revalidated"}
         /\ r.kind = "revalidated" => r.mode = "cached"
         /\ upset = {} => r.late <= Timeout

CallInv == \A c \in Clients : SoundCall(call[c])

\* A call that runs alone does so.
AloneInv ==
    \A c, d \in Clients : (c # d /\ Running(c) /\ call[c].alone) => At(d, "idle")

IInv == Types /\ ServerInv /\ FileInv /\ CallInv /\ AloneInv
-----------------------------------------------------------------------------
\* Names are pairs.
LEMMA NamesType ==
    /\ \A n \in Names : n[1] \in URLs /\ n[2] \in Revs
    /\ \A u \in URLs, r \in Revs : <<u, r>> \in Names /\ <<u, r>>[1] = u /\ <<u, r>>[2] = r
    /\ Revs \subseteq Nat /\ MaxRev \in Nat /\ Never \in Nat
    BY ListCacheAssumption DEF Names, Revs, MaxRev, Never

LEMMA TagType == \A r \in Revs : TagOf(r) \in 0 .. MaxRev /\ (TagOf(r) # NoTag => TagOf(r) = r)
    BY NamesType DEF TagOf, NoTag, Revs

\* What Sound says, with its types.
LEMMA SoundFields ==
    ASSUME Types, NEW e, Sound(e)
    PROVE  /\ e.url \in URLs /\ e.at \in Int /\ e.names \in Names
           /\ e.names[1] = e.url /\ e.names[2] \in Revs
           /\ gone[e.url][e.names[2]] \in 0 .. Never
    <1>1. e.url \in URLs /\ e.at \in Int /\ e.names \in Names /\ e.names[1] = e.url
        BY DEF Sound, Entry
    <1>2. e.names[2] \in Revs  BY <1>1, NamesType
    <1> QED  BY <1>1, <1>2 DEF Types

\* A call that ends leaves nothing behind.
LEMMA IdleCall ==
    NoCall \in Call /\ SoundCall(NoCall) /\ SoundCall(NoCall)' /\ NoCall.pc = "idle"
    <1>1. NoCall \in Call
        BY ListCacheAssumption DEF NoCall, Call, Modes, NoRev, MaxRev
    <1>2. NoCall.pc = "idle" /\ NoCall.entry = NoEntry /\ NoCall.answer = NoEntry
        BY DEF NoCall
    <1> QED  BY <1>1, <1>2 DEF SoundCall

\* Nothing that an entry or a call is measured by changes, but for a lie.
LEMMA SameWorld ==
    ASSUME UNCHANGED <<listing, gone, clock, floor>>, upset \subseteq upset'
    PROVE  /\ \A x : Sound(x) => Sound(x)'
           /\ \A x : SoundCall(x) => SoundCall(x)'
    <1>1. UNCHANGED <<listing, gone, now, skew, floor, Wall>> /\ (upset' = {} => upset = {})
        BY DEF clock, Wall
    <1>2. ASSUME NEW x PROVE Sound(x) => Sound(x)'  BY <1>1 DEF Sound
    <1>3. ASSUME NEW x PROVE SoundAnswer(x) => SoundAnswer(x)'  BY <1>1 DEF SoundAnswer
    <1>4. ASSUME NEW x PROVE SoundCall(x) => SoundCall(x)'
        BY <1>1, <1>2, <1>3 DEF SoundCall
    <1> QED  BY <1>2, <1>4

\* The call of one client changes, and the others' are sound in the new world.
LEMMA OneCall ==
    ASSUME Types, CallInv, AloneInv, NEW c \in Clients, NEW r \in Call,
           call' = [call EXCEPT ![c] = r],
           SoundCall(r)',
           \A x \in Call : SoundCall(x) => SoundCall(x)',
           r.pc # "idle" => Running(c) /\ r.alone = call[c].alone
    PROVE  CallInv' /\ AloneInv' /\ call' \in [Clients -> Call]
    <1>1. call' \in [Clients -> Call] /\ \A d \in Clients : call'[d] = IF d = c THEN r ELSE call[d]
        BY DEF Types
    <1>2. CallInv'
        BY <1>1 DEF CallInv
    <1>3. AloneInv'
        BY <1>1 DEF AloneInv, At, Running
    <1> QED  BY <1>1, <1>2, <1>3

\* A client goes on, or ends without a listing; it may open the file.
LEMMA Advances ==
    ASSUME IInv, NEW c \in Clients, NEW r \in Call,
           call' = [call EXCEPT ![c] = r],
           SoundCall(r)',
           r.pc # "idle" => Running(c) /\ r.alone = call[c].alone,
           UNCHANGED <<server, clock, news, floor>>, upset \subseteq upset',
           file' \in {file} \cup NoFile
    PROVE  IInv'
    <1>1. /\ \A x : Sound(x) => Sound(x)'
          /\ \A x : SoundCall(x) => SoundCall(x)'
        BY SameWorld DEF server
    <1>2. CallInv' /\ AloneInv' /\ call' \in [Clients -> Call]
        BY <1>1, OneCall DEF IInv
    <1>3. Types' /\ ServerInv'
        BY <1>2 DEF IInv, Types, ServerInv, server, clock
    <1>4. FileInv'
        BY <1>1 DEF IInv, FileInv
    <1> QED  BY <1>2, <1>3, <1>4 DEF IInv

\* A client returns a sound listing; if it saved it, the file is that entry or
\* none, and a client that ran alone raises the floor: no other has an entry.
LEMMA Returns ==
    ASSUME IInv, NEW c \in Clients, Running(c),
           NEW e, Sound(e), NEW kind, NEW late, NEW saved \in BOOLEAN,
           Return(c, kind, e.names, late, saved),
           UNCHANGED <<server, clock, upset, news>>,
           file' \in {e} \cup NoFile \cup (IF saved THEN {} ELSE {file})
    PROVE  IInv'
    <1> USE DEF IInv
    <1>1. call' = [call EXCEPT ![c] = NoCall]  BY DEF Return
    <1>2. CASE ~(saved /\ call[c].alone)
        <2>1. UNCHANGED floor  BY <1>2 DEF Return
        <2>2. /\ \A x : Sound(x) => Sound(x)'
              /\ \A x : SoundCall(x) => SoundCall(x)'
            BY <2>1, SameWorld DEF server
        <2>3. CallInv' /\ AloneInv' /\ call' \in [Clients -> Call]
            BY <1>1, <2>2, OneCall, IdleCall
        <2>4. Types' /\ ServerInv'
            BY <2>1, <2>3 DEF Types, ServerInv, server, clock
        <2>5. FileInv'
            BY <2>2 DEF FileInv
        <2> QED  BY <2>3, <2>4, <2>5
    <1>3. CASE saved /\ call[c].alone
        <2>1. floor' = [floor EXCEPT ![e.url] = e.names[2]] /\ e.names[2] \in 0 .. MaxRev /\ e.url \in URLs
            <3>1. e.names[1] = e.url /\ e.url \in URLs /\ e.names[2] \in Revs  BY SoundFields
            <3>2. floor' = [floor EXCEPT ![e.names[1]] = e.names[2]]  BY <1>3 DEF Return
            <3> QED  BY <3>1, <3>2, NamesType DEF Revs
        <2>2. Sound(e)'
            <3>1. UNCHANGED <<listing, gone, now, upset, Wall>>  BY DEF server, clock, Wall
            <3>2. floor'[e.url] = e.names[2]  BY <2>1 DEF Types
            <3>3. e.names[2] <= e.names[2]  BY <2>1
            <3> QED  BY <3>1, <3>2, <3>3 DEF Sound
        <2>3. \A d \in Clients : call'[d].pc = "idle" /\ call'[d].entry = NoEntry /\ call'[d].answer = NoEntry
            <3>1. \A d \in Clients \ {c} : call[d].pc = "idle" /\ call'[d] = call[d]
                BY <1>1, <1>3 DEF AloneInv, At, Types
            <3>2. call'[c] = NoCall  BY <1>1 DEF Types
            <3>3. \A d \in Clients \ {c} : call[d].entry = NoEntry /\ call[d].answer = NoEntry
                BY <3>1 DEF CallInv, SoundCall
            <3> QED  BY <3>1, <3>2, <3>3 DEF NoCall
        <2>4. CallInv'
            <3> SUFFICES ASSUME NEW d \in Clients PROVE SoundCall(call[d])'  BY DEF CallInv
            <3> QED  BY <2>3 DEF SoundCall
        <2>5. AloneInv'  BY <2>3 DEF AloneInv, At, Running
        <2>6. call' \in [Clients -> Call]  BY <1>1, IdleCall DEF Types
        <2>7. Types' /\ ServerInv'
            <3>1. e.names[2] <= listing[e.url]  BY DEF Sound
            <3> QED  BY <2>1, <2>6, <3>1 DEF Types, ServerInv, server, clock
        <2>8. FileInv'
            BY <1>3, <2>2 DEF FileInv
        <2> QED  BY <2>4, <2>5, <2>7, <2>8
    <1> QED  BY <1>2, <1>3

\* What it returns keeps the promises.
LEMMA ReturnsGood ==
    ASSUME IInv, NEW c \in Clients, Running(c),
           NEW e, Sound(e), e.url = call[c].url, NEW kind \in Served, NEW late, NEW saved,
           Return(c, kind, e.names, late, saved), UNCHANGED <<listing, upset>>,
           kind # "fetched" => call[c].mode = "cached",
           (kind # "stale" /\ upset = {}) => IF kind = "fresh" THEN late < TTL + Timeout ELSE late <= Timeout
    PROVE  ServedIsRecent' /\ NeverGoesBack'
    <1>1. shown' = [kind |-> kind, names |-> e.names, late |-> late, url |-> call[c].url,
                    mode |-> call[c].mode, low |-> call[c].low]
        BY DEF Return
    <1>2. /\ shown'.kind = kind /\ shown'.names = e.names /\ shown'.late = late
          /\ shown'.url = e.url /\ shown'.mode = call[c].mode /\ shown'.low = call[c].low
        BY <1>1
    <1>3. call[c].low = floor[e.url]
        BY DEF IInv, CallInv, SoundCall, Running, At
    <1>4. ServedIsRecent'
        BY <1>2 DEF ServedIsRecent, Sound, Recent
    <1>5. NeverGoesBack'
        BY <1>2, <1>3 DEF NeverGoesBack, Sound
    <1> QED  BY <1>4, <1>5

\* In a step in which no call returns a listing there is nothing to promise.
LEMMA QuietGood ==
    ASSUME shown'.kind \notin Served
    PROVE  ServedIsRecent' /\ NeverGoesBack'
    BY DEF ServedIsRecent, NeverGoesBack

LEMMA QuietKind == Quiet => shown'.kind \notin Served
    BY DEF Quiet, NoResult, Served

LEMMA RefuseKind ==
    ASSUME NEW c, NEW kind \in Errors, Refuse(c, kind)
    PROVE  shown'.kind \notin Served
    BY DEF Refuse, Errors, Served

Good == IInv /\ ServedIsRecent /\ NeverGoesBack

LEMMA InitGood == Init => Good
    <1> SUFFICES ASSUME Init PROVE Good  OBVIOUS
    <1>1. Types
        BY ListCacheAssumption, NamesType, IdleCall DEF Init, Types, Revs, MaxRev, NoRev, Never
    <1>2. ServerInv
        BY ListCacheAssumption DEF Init, ServerInv, Revs, MaxRev, NoRev
    <1>3. FileInv
        <2> SUFFICES ASSUME NEW u \in URLs,
                            file = [url |-> u, tag |-> TagOf(1), at |-> 0, names |-> <<u, 1>>]
                     PROVE  Sound(file)
            BY DEF Init, FileInv
        <2>1. 1 \in Revs /\ <<u, 1>> \in Names  BY ListCacheAssumption, NamesType DEF Revs, MaxRev
        <2>2. file \in Entry  BY <2>1, TagType DEF Entry
        <2>3. file.url = u /\ file.names = <<u, 1>> /\ file.at = 0 /\ file.tag = TagOf(1)  OBVIOUS
        <2>4. listing[u] = 1 /\ floor[u] = 0 /\ gone[u][1] = Never /\ Wall = 0 /\ now = 0
            BY <2>1 DEF Init, NoRev, Wall
        <2>5. 0 - Never <= Timeout + (0 - 0)  BY ListCacheAssumption DEF Never
        <2> QED  BY <2>2, <2>3, <2>4, <2>5 DEF Sound
    <1>4. CallInv /\ AloneInv
        <2>1. \A c \in Clients : call[c] = NoCall  BY DEF Init
        <2>2. SoundCall(NoCall) /\ NoCall.pc = "idle"  BY <1>1, IdleCall
        <2> QED  BY <2>1, <2>2 DEF CallInv, AloneInv, At, Running
    <1>5. ServedIsRecent /\ NeverGoesBack
        BY DEF Init, NoResult, Served, ServedIsRecent, NeverGoesBack
    <1> QED  BY <1>1, <1>2, <1>3, <1>4, <1>5 DEF Good, IInv
-----------------------------------------------------------------------------
\* A call begins.
LEMMA BeginGood ==
    ASSUME IInv, NEW c \in Clients, NEW mode \in Modes, Begin(c, mode)
    PROVE  Good'
    <1> USE DEF IInv
    <1> DEFINE alone == \A e \in Clients \ {c} : ~Running(e)
               started(b) == [NoCall EXCEPT !.pc = IF mode = "cached" THEN "load" ELSE "send",
                                            !.mode = mode, !.url = config,
                                            !.low = floor[config], !.alone = b]
               quiet(x) == [x EXCEPT !.alone = FALSE]
    <1>0. PICK b \in BOOLEAN : b <=> alone  OBVIOUS
    <1>a. \A v \in BOOLEAN : started(v) \in Call
        <2>1. floor[config] \in 0 .. MaxRev /\ config \in URLs  BY DEF Types
        <2> QED  BY ZenonT(60), <2>1, IdleCall DEF Call, Modes
    <1>1. started(b) \in Call /\ \A x \in Call : quiet(x) \in Call
        BY ZenonT(60), <1>a DEF Call
    <1> DEFINE r == started(b)
    <1>b. call' = [d \in Clients |-> IF d = c THEN started(alone) ELSE quiet(call[d])]
        BY DEF Begin
    <1>c. started(alone) = r  BY <1>0
    <1>2. call' \in [Clients -> Call] /\ \A d \in Clients : call'[d] = IF d = c THEN r ELSE quiet(call[d])
        BY <1>1, <1>b, <1>c DEF Types
    <1>3. /\ \A x : Sound(x) => Sound(x)'
          /\ \A x : SoundCall(x) => SoundCall(x)'
        BY SameWorld DEF Begin, Quiet, server
    <1>4. SoundCall(r)
        BY DEF Types, SoundCall, NoCall
    <1>5. \A x \in Call : SoundCall(x) => SoundCall(quiet(x))
        BY DEF SoundCall, SoundAnswer, Call
    <1>6. CallInv'
        BY <1>2, <1>3, <1>4, <1>5 DEF CallInv, Types
    <1>7. AloneInv'
        <2> SUFFICES ASSUME NEW x \in Clients, NEW y \in Clients, x # y, call'[x].alone
                     PROVE  call'[y].pc = "idle"
            BY DEF AloneInv, At
        <2>1. x = c  BY <1>2 DEF Types, Call
        <2>2. b  BY <1>2, <2>1, IdleCall DEF Call
        <2>3. call[y].pc = "idle"  BY <1>0, <2>1, <2>2 DEF Running, At
        <2> QED  BY <1>2, <2>1, <2>3 DEF Types, Call
    <1>8. Types' /\ ServerInv' /\ FileInv'
        BY <1>2, <1>3 DEF Types, ServerInv, FileInv, Begin, Quiet, server, clock
    <1>9. ServedIsRecent' /\ NeverGoesBack'
        BY QuietGood, QuietKind DEF Begin
    <1> QED  BY <1>6, <1>7, <1>8, <1>9 DEF Good

\* A step in which a client goes on.
LEMMA GoesOn ==
    ASSUME IInv, NEW c \in Clients, Running(c), NEW r \in Call,
           call' = [call EXCEPT ![c] = r], r.alone = call[c].alone,
           SoundCall(r)', Quiet,
           UNCHANGED <<server, clock, news>>, upset \subseteq upset', file' \in {file} \cup NoFile
    PROVE  Good'
    BY Advances, QuietGood, QuietKind DEF Good, Quiet

\* The cache file is read: its entry is served, kept, or of no use.
LEMMA LoadGood ==
    ASSUME IInv, NEW c \in Clients, Load(c)
    PROVE  Good'
    <1> USE DEF IInv
    <1> DEFINE hit == file \notin NoFile /\ file.url = call[c].url
               age == Wall - file.at
    <1>1. /\ At(c, "load") /\ Running(c) /\ call[c] \in Call
          /\ call[c].mode = "cached" /\ call[c].answer = NoEntry /\ SoundCall(call[c])
        BY DEF Load, UseEntry, At, Running, CallInv, SoundCall, Types
    <1>2. UNCHANGED <<server, file, clock, upset, bounds>>  BY DEF Load, UseEntry
    <1>3. CASE hit /\ age >= 0 /\ age < TTL
        <2>1. Return(c, "fresh", file.names, Late(file.names), TRUE)  BY <1>3 DEF Load, UseEntry
        <2>2. Sound(file) /\ file.url = call[c].url  BY <1>3 DEF FileInv
        <2>3. upset = {} => Late(file.names) < TTL + Timeout
            <3>1. file.names[1] = file.url /\ gone[file.url][file.names[2]] \in 0 .. Never /\ file.at \in Int
                BY <2>2, SoundFields
            <3>2. now \in Int /\ Wall \in Int  BY DEF Types, Wall
            <3> QED  BY <1>3, <2>2, <3>1, <3>2, ListCacheAssumption DEF Sound, Late, Never
        <2>4. IInv'
            BY <1>1, <1>2, <2>1, <2>2, Returns DEF bounds
        <2>5. ServedIsRecent' /\ NeverGoesBack'
            BY <1>1, <1>2, <2>1, <2>2, <2>3, ReturnsGood DEF server, Served
        <2> QED  BY <2>4, <2>5 DEF Good
    <1>4. CASE ~(hit /\ age >= 0 /\ age < TTL)
        <2>2. hit => Sound(file) /\ file \in Entry /\ file.url = call[c].url  BY DEF FileInv, Sound
        <2>3. PICK r \in Call : r = [call[c] EXCEPT !.pc = "send", !.entry = IF hit THEN file ELSE NoEntry]
            BY <1>1, <2>2 DEF Call
        <2>1. call' = [call EXCEPT ![c] = r] /\ Quiet
            BY <1>4, <2>3 DEF Load, UseEntry, Types
        <2>4. SoundCall(r)  BY <1>1, <2>2, <2>3 DEF SoundCall, At, Call
        <2>5. SoundCall(r)'  BY <1>2, <2>1, <2>4, SameWorld DEF Quiet, server
        <2> QED  BY <1>1, <1>2, <2>1, <2>3, <2>5, GoesOn DEF bounds, Call
    <1> QED  BY <1>3, <1>4

LEMMA SendGood ==
    ASSUME IInv, NEW c \in Clients, Send(c)
    PROVE  Good'
    <1> USE DEF IInv
    <1>1. At(c, "send") /\ Running(c) /\ call[c] \in Call /\ SoundCall(call[c])
        BY DEF Send, At, Running, CallInv, Types
    <1>2. PICK r \in Call : r = [call[c] EXCEPT !.pc = "await", !.sent = now]
        BY <1>1 DEF Call, Types
    <1>3. call' = [call EXCEPT ![c] = r] /\ Quiet /\ UNCHANGED <<server, file, clock, upset, bounds>>
        BY <1>2 DEF Send, Types
    <1>4. SoundCall(r)
        BY <1>1, <1>2, ListCacheAssumption DEF SoundCall, At, Call, Types
    <1>5. SoundCall(r)'  BY <1>3, <1>4, SameWorld DEF Quiet, server
    <1> QED  BY <1>1, <1>2, <1>3, <1>5, GoesOn DEF bounds, Call

\* A step in which a client ends without a listing.
LEMMA Ends ==
    ASSUME IInv, NEW c \in Clients, call' = [call EXCEPT ![c] = NoCall], shown'.kind \notin Served,
           UNCHANGED <<server, clock, news, floor, file, upset>>
    PROVE  Good'
    <1>1. SoundCall(NoCall)' /\ NoCall \in Call /\ NoCall.pc = "idle"  BY IdleCall
    <1>2. IInv'  BY <1>1, Advances
    <1> QED  BY <1>2, QuietGood DEF Good

LEMMA AnswerGood ==
    ASSUME IInv, NEW c \in Clients, Answer(c)
    PROVE  Good'
    <1> USE DEF IInv
    <1>1. At(c, "await") /\ Running(c) /\ call[c] \in Call /\ SoundCall(call[c])
        BY DEF Answer, At, Running, CallInv, Types
    <1>0. PICK u \in URLs : u = call[c].url /\ call[c].low = floor[u]
        BY <1>1 DEF At, SoundCall
    <1>b. PICK v \in Revs : v = listing[u]
        BY DEF Types
    <1> DEFINE same == TagSent(c) # NoTag /\ TagSent(c) = TagOf(v)
    <1>2. PICK a : /\ same => a = [status |-> 304]
                   /\ ~same => a = [status |-> 200, names |-> <<u, v>>, tag |-> TagOf(v)]
        <2>1. CASE same  BY <2>1
        <2>2. CASE ~same  BY <2>2
        <2> QED  BY <2>1, <2>2
    <1>3. a \in Answers
        <2>1. <<u, v>> \in Names /\ TagOf(v) \in 0 .. MaxRev  BY NamesType, TagType
        <2> QED  BY <1>2, <2>1 DEF Answers
    <1>4. PICK r \in Call : r = [call[c] EXCEPT !.answer = a]
        BY <1>1, <1>3 DEF Call
    <1>5. call' = [call EXCEPT ![c] = r] /\ Quiet /\ UNCHANGED <<server, file, clock, upset, bounds>>
        BY <1>0, <1>b, <1>2, <1>4 DEF Answer, Types
    <1>6. call[c].sent <= now /\ call[c].sent \in Nat /\ now \in Nat /\ now < Never
        BY <1>1, ListCacheAssumption DEF SoundCall, At, Types, Call, Never
    <1>7. gone[u][v] = Never  BY <1>b, NamesType DEF ServerInv
    <1>8. SoundAnswer(r)
        <2>0. r.answer = a /\ r.url = u /\ r.sent = call[c].sent /\ r.low = call[c].low /\ r.entry = call[c].entry
            BY <1>0, <1>1, <1>4 DEF Call
        <2>1. CASE same
            <3>1. call[c].entry # NoEntry /\ call[c].entry.tag = TagOf(v) /\ call[c].entry.tag # NoTag
                BY <2>1 DEF TagSent
            <3>2. Sound(call[c].entry) /\ call[c].entry.url = u  BY <1>0, <1>1, <3>1 DEF SoundCall
            <3>3. call[c].entry.names[2] = v
                BY <1>1, <3>1, <3>2, SoundFields, TagType DEF Sound
            <3>4. a.status = 304  BY <1>2, <2>1
            <3>5. r.answer.status # 200  BY <2>0, <3>4
            <3>6. r.entry # NoEntry /\ gone[r.url][r.entry.names[2]] = Never  BY <1>7, <2>0, <3>1, <3>3
            <3>7. r.sent <= Never  BY <1>6, <2>0, NamesType
            <3> QED  BY <3>5, <3>6, <3>7 DEF SoundAnswer
        <2>2. CASE ~same
            <3>1. a.status = 200 /\ a.names = <<u, v>> /\ a.tag = TagOf(v)
                BY <1>2, <2>2
            <3>2. a.names \in Names /\ a.names[1] = u /\ a.names[2] = v /\ a.tag \in 0 .. MaxRev
                BY <3>1, NamesType, TagType
            <3>3. floor[u] <= v  BY <1>b DEF ServerInv
            <3> QED  BY <1>0, <1>b, <1>6, <1>7, <2>0, <3>1, <3>2, <3>3, NamesType DEF SoundAnswer, Never
        <2> QED  BY <2>1, <2>2
    <1>9. SoundCall(r)
        BY <1>1, <1>4, <1>8 DEF SoundCall, At, Call
    <1>10. SoundCall(r)'  BY <1>5, <1>9, SameWorld DEF Quiet, server
    <1> QED  BY <1>1, <1>4, <1>5, <1>10, GoesOn DEF bounds, Call

LEMMA AnswerWronglyGood ==
    ASSUME IInv, NEW c \in Clients, AnswerWrongly(c)
    PROVE  Good'
    <1> USE DEF IInv
    <1>1. PICK x \in Call : x = call[c]  BY DEF Types
    <1>2. At(c, "await") /\ Running(c) /\ SoundCall(x) /\ x.pc = "await"
        BY <1>1 DEF AnswerWrongly, At, Running, CallInv
    <1>a. [status |-> 304] \in Answers  BY DEF Answers
    <1>3. PICK r \in Call : r = [x EXCEPT !.answer = [status |-> 304]]
        BY ZenonT(60), <1>a DEF Call
    <1>4. call' = [call EXCEPT ![c] = r] /\ Quiet /\ UNCHANGED <<server, file, clock, news>>
        BY <1>1, <1>3 DEF AnswerWrongly, Types
    <1>5. upset \subseteq upset' /\ upset' # {}  BY DEF AnswerWrongly
    <1>6. SoundCall(x)'  BY <1>2, <1>4, <1>5, SameWorld DEF Quiet, server
    <1>7. r.answer.status = 304  BY <1>3 DEF Call
    <1>8. SoundAnswer(r)'  BY <1>5, <1>7 DEF SoundAnswer
    <1>9. SoundCall(r)'  BY <1>2, <1>3, <1>6, <1>8 DEF SoundCall, Call
    <1> QED  BY ZenonT(60), <1>1, <1>2, <1>3, <1>4, <1>5, <1>9, GoesOn DEF Call

\* An answer that is accepted came at most the timeout after the request.
LEMMA AnswerIsRecent ==
    ASSUME IInv, NEW x \in Call, SoundCall(x), x.pc = "await", NEW n \in Names,
           n[1] = x.url, x.sent <= gone[x.url][n[2]]
    PROVE  Late(n) \in 0 .. MaxTime /\ Late(n) <= Timeout /\ now - gone[x.url][n[2]] <= Timeout
    <1>1. n[2] \in Revs /\ x.url \in URLs  BY NamesType DEF SoundCall
    <1>2. gone[x.url][n[2]] \in 0 .. Never /\ now \in 0 .. MaxTime  BY <1>1 DEF IInv, Types
    <1>3. x.sent \in Nat /\ now <= x.sent + Timeout  BY DEF SoundCall, Call
    <1> QED  BY <1>2, <1>3, ListCacheAssumption DEF Late, Never

LEMMA LateType ==
    ASSUME IInv, NEW n \in Names
    PROVE  Late(n) \in 0 .. MaxTime
    <1>1. gone[n[1]][n[2]] \in 0 .. Never /\ now \in 0 .. MaxTime
        BY ZenonT(60), NamesType DEF IInv, Types
    <1> QED  BY <1>1, ListCacheAssumption DEF Late, Never

LEMMA ReceiveGood ==
    ASSUME IInv, NEW c \in Clients, Receive(c)
    PROVE  Good'
    <1> USE DEF IInv
    <1>1. PICK x \in Call : x = call[c]  BY DEF Types
    <1>2. At(c, "await") /\ Running(c) /\ SoundCall(x) /\ x.pc = "await" /\ x.answer # NoEntry /\ x.answer.status = 200
        BY <1>1 DEF Receive, At, Running, CallInv
    <1>3. SoundAnswer(x) /\ x.answer.names \in Names /\ x.answer.tag \in 0 .. MaxRev /\ x.url \in URLs
        BY <1>2 DEF SoundCall, SoundAnswer
    <1>4. PICK e : e = [url |-> x.url, tag |-> x.answer.tag, at |-> Wall, names |-> x.answer.names]
        OBVIOUS
    <1>5. /\ e.url = x.url /\ e.tag = x.answer.tag /\ e.at = Wall /\ e.names = x.answer.names
          /\ e \in Entry
        BY <1>3, <1>4 DEF Entry, Types, Wall
    <1>6. Late(e.names) \in 0 .. MaxTime /\ Late(e.names) <= Timeout /\ now - gone[e.url][e.names[2]] <= Timeout
        BY <1>2, <1>3, <1>5, AnswerIsRecent DEF SoundAnswer
    <1>7. Sound(e)
        <2>1. floor[e.url] <= e.names[2]  BY <1>2, <1>3, <1>5 DEF SoundAnswer, SoundCall
        <2>2. e.at <= Wall /\ Wall - e.at = 0  BY <1>5 DEF Wall, Types
        <2>3. now - gone[e.url][e.names[2]] <= Timeout + (Wall - e.at)
            BY <1>6, <2>2, ListCacheAssumption
        <2> QED  BY <1>2, <1>3, <1>5, <2>1, <2>2, <2>3 DEF Sound, SoundAnswer
    <1>8. PICK r \in Call : r = [x EXCEPT !.pc = "open", !.kind = "fetched", !.entry = e,
                                           !.answer = NoEntry, !.late = Late(e.names)]
        BY <1>5, <1>6 DEF Call
    <1>9. call' = [call EXCEPT ![c] = r] /\ Quiet /\ UNCHANGED <<server, file, clock, upset, bounds>>
        <2>1. Save(c, "fetched", e) /\ UNCHANGED <<server, file, clock, upset, bounds>>
            BY <1>1, <1>4 DEF Receive
        <2> QED  BY <1>1, <1>8, <2>1 DEF Save, Types
    <1>10. e # NoEntry
        <2>1. "url" \in DOMAIN e  BY <1>4
        <2>2. "url" \notin DOMAIN NoEntry  BY DEF NoEntry
        <2> QED  BY <2>1, <2>2
    <1>11. SoundCall(r)  BY <1>2, <1>3, <1>5, <1>6, <1>7, <1>8, <1>10 DEF SoundCall, Call
    <1>12. SoundCall(r)'  BY <1>9, <1>11, SameWorld DEF Quiet, server
    <1> QED  BY ZenonT(60), <1>1, <1>2, <1>8, <1>9, <1>12, GoesOn DEF bounds, Call

LEMMA ReceiveNotModifiedGood ==
    ASSUME IInv, NEW c \in Clients, ReceiveNotModified(c)
    PROVE  Good'
    <1> USE DEF IInv
    <1>1. PICK x \in Call : x = call[c]  BY DEF Types
    <1>2. At(c, "await") /\ Running(c) /\ SoundCall(x) /\ x.pc = "await" /\ x.answer # NoEntry /\ x.answer.status = 304
        BY <1>1 DEF ReceiveNotModified, At, Running, CallInv
    <1>3. UNCHANGED <<server, file, clock, upset, bounds>>  BY DEF ReceiveNotModified
    <1>4. CASE x.entry = NoEntry
        <2>1. Refuse(c, "error")  BY <1>1, <1>4 DEF ReceiveNotModified
        <2> QED  BY <1>3, <2>1, RefuseKind, Ends DEF Refuse, Errors, bounds
    <1>5. CASE x.entry # NoEntry
        <2>1. SoundAnswer(x) /\ Sound(x.entry) /\ x.entry.url = x.url /\ x.mode = "cached"
            BY <1>2, <1>5 DEF SoundCall
        <2>2. PICK e : e = [x.entry EXCEPT !.at = Wall]  OBVIOUS
        <2>3. /\ x.entry \in Entry /\ e \in Entry
              /\ e.url = x.url /\ e.at = Wall /\ e.names = x.entry.names /\ e.tag = x.entry.tag
            BY <2>1, <2>2 DEF Sound, Entry, Types, Wall
        <2>4. e.names \in Names /\ Late(e.names) \in 0 .. MaxTime
            BY <2>3, LateType DEF Entry
        <2>5. upset = {} => Late(e.names) <= Timeout /\ now - gone[e.url][e.names[2]] <= Timeout
            BY <1>2, <2>1, <2>3, <2>4, AnswerIsRecent DEF SoundAnswer, Sound
        <2>6. Sound(e)
            <3>1. e.at <= Wall /\ Wall - e.at = 0  BY <2>3 DEF Wall, Types
            <3>2. upset = {} => now - gone[e.url][e.names[2]] <= Timeout + (Wall - e.at)
                BY <2>5, <3>1, ListCacheAssumption
            <3> QED  BY <2>1, <2>3, <3>1, <3>2 DEF Sound
        <2>7. e # NoEntry
            <3>1. "url" \in DOMAIN e  BY <2>3 DEF Entry
            <3>2. "url" \notin DOMAIN NoEntry  BY DEF NoEntry
            <3> QED  BY <3>1, <3>2
        <2>8. PICK r \in Call : r = [x EXCEPT !.pc = "open", !.kind = "revalidated", !.entry = e,
                                               !.answer = NoEntry, !.late = Late(e.names)]
            BY <2>3, <2>4 DEF Call
        <2>9. call' = [call EXCEPT ![c] = r] /\ Quiet
            <3>1. Save(c, "revalidated", e)  BY <1>1, <1>5, <2>2 DEF ReceiveNotModified
            <3> QED  BY <1>1, <2>8, <3>1 DEF Save, Types
        <2>10. SoundCall(r)  BY <1>2, <2>1, <2>3, <2>5, <2>6, <2>7, <2>8 DEF SoundCall, Call
        <2>11. SoundCall(r)'  BY <1>3, <2>9, <2>10, SameWorld DEF Quiet, server
        <2> QED  BY ZenonT(60), <1>1, <1>2, <1>3, <2>8, <2>9, <2>11, GoesOn DEF bounds, Call
    <1> QED  BY <1>4, <1>5

LEMMA FetchFailsGood ==
    ASSUME IInv, NEW c \in Clients, FetchFails(c)
    PROVE  Good'
    <1> USE DEF IInv
    <1>1. PICK x \in Call : x = call[c]  BY DEF Types
    <1>2. At(c, "await") /\ Running(c) /\ SoundCall(x) /\ x.pc = "await"
        BY <1>1 DEF FetchFails, At, Running, CallInv
    <1>3. UNCHANGED <<server, file, clock, upset, news>>  BY DEF FetchFails
    <1>4. CASE x.entry = NoEntry
        <2>1. Refuse(c, "error")  BY <1>1, <1>4 DEF FetchFails
        <2> QED  BY <1>3, <2>1, RefuseKind, Ends DEF Refuse, Errors
    <1>5. CASE x.entry # NoEntry
        <2>1. Return(c, "stale", x.entry.names, Late(x.entry.names), FALSE)
            BY <1>1, <1>5 DEF FetchFails
        <2>2. Sound(x.entry) /\ x.entry.url = x.url /\ x.mode = "cached"
            BY <1>2, <1>5 DEF SoundCall
        <2>3. IInv'  BY <1>2, <1>3, <2>1, <2>2, Returns
        <2>4. ServedIsRecent' /\ NeverGoesBack'
            BY <1>1, <1>2, <1>3, <2>1, <2>2, ReturnsGood DEF Served, server
        <2> QED  BY <2>3, <2>4 DEF Good
    <1> QED  BY <1>4, <1>5

LEMMA GivesUpGood ==
    ASSUME IInv, NEW c \in Clients, Cancel(c) \/ TimesOut(c) \/ Crash(c)
    PROVE  Good'
    <1>1. CASE Cancel(c)
        BY <1>1, RefuseKind, Ends DEF Cancel, Refuse, Errors
    <1>2. CASE TimesOut(c)
        BY <1>2, RefuseKind, Ends DEF TimesOut, Refuse, Errors, bounds
    <1>3. CASE Crash(c)
        BY <1>3, QuietKind, Ends DEF Crash, Quiet
    <1> QED  BY <1>1, <1>2, <1>3

LEMMA OpenGood ==
    ASSUME IInv, NEW c \in Clients, Open(c)
    PROVE  Good'
    <1> USE DEF IInv
    <1>1. PICK x \in Call : x = call[c]  BY DEF Types
    <1>2. At(c, "open") /\ Running(c) /\ SoundCall(x) /\ x.pc = "open"
        BY <1>1 DEF Open, At, Running, CallInv
    <1>3. PICK r \in Call : r = [x EXCEPT !.pc = "write"]
        BY DEF Call
    <1>4. call' = [call EXCEPT ![c] = r] /\ Quiet /\ UNCHANGED <<server, clock, upset, bounds>> /\ file' = Empty
        BY <1>1, <1>3 DEF Open, Types
    <1>5. SoundCall(r)  BY <1>2, <1>3 DEF SoundCall, Call
    <1>6. SoundCall(r)'  BY <1>4, <1>5, SameWorld DEF Quiet, server
    <1> QED  BY <1>1, <1>2, <1>3, <1>4, <1>6, GoesOn DEF bounds, Call, NoFile

\* The listing is returned, whether or not it could be saved.
LEMMA FinishGood ==
    ASSUME IInv, NEW c \in Clients, call[c].pc \in {"open", "write"}, NEW saved \in BOOLEAN,
           Finish(c, saved), UNCHANGED <<server, clock, upset, news>>,
           file' \in {call[c].entry} \cup NoFile \cup (IF saved THEN {} ELSE {file})
    PROVE  Good'
    <1> USE DEF IInv
    <1>1. PICK x \in Call : x = call[c]  BY DEF Types
    <1>2. Running(c) /\ SoundCall(x)  BY <1>1 DEF Running, At, CallInv
    <1>3. /\ Sound(x.entry) /\ x.entry.url = x.url
          /\ x.kind \in {"fetched", "revalidated"}
          /\ x.kind = "revalidated" => x.mode = "cached"
          /\ upset = {} => x.late <= Timeout
        BY <1>1, <1>2 DEF SoundCall
    <1>4. Return(c, x.kind, x.entry.names, x.late, saved)  BY <1>1 DEF Finish
    <1>5. IInv'  BY <1>1, <1>2, <1>3, <1>4, Returns
    <1>6. x.kind \in Served /\ x.kind # "fresh" /\ x.kind # "stale"  BY <1>3 DEF Served
    <1>7. ServedIsRecent' /\ NeverGoesBack'
        BY <1>1, <1>2, <1>3, <1>4, <1>6, ReturnsGood DEF server
    <1> QED  BY <1>5, <1>7 DEF Good

LEMMA SavesGood ==
    ASSUME IInv, NEW c \in Clients, OpenFails(c) \/ Write(c) \/ WriteFails(c)
    PROVE  Good'
    <1>1. CASE OpenFails(c)
        BY <1>1, FinishGood DEF OpenFails, At
    <1>2. CASE Write(c)
        BY <1>2, FinishGood DEF Write, At, NoFile, bounds
    <1>3. CASE WriteFails(c)
        BY <1>3, FinishGood DEF WriteFails, At, NoFile
    <1> QED  BY <1>1, <1>2, <1>3
-----------------------------------------------------------------------------
\* The world changes, and what the clients and the file hold stays sound.
LEMMA WorldChanges ==
    ASSUME IInv, Quiet, UNCHANGED <<file, call>>, Types', ServerInv',
           \A x : Sound(x) => Sound(x)',
           \A c \in Clients : SoundCall(call[c]) => SoundCall(call[c])'
    PROVE  Good'
    <1> USE DEF IInv
    <1>1. FileInv'  BY DEF FileInv
    <1>2. CallInv'  BY DEF CallInv
    <1>3. AloneInv'  BY DEF AloneInv, At, Running
    <1> QED  BY <1>1, <1>2, <1>3, QuietGood, QuietKind DEF Good

\* A listing that is superseded was served until now.
LEMMA PublishGood ==
    ASSUME IInv, NEW u \in URLs, Publish(u)
    PROVE  Good'
    <1> USE DEF IInv
    <1>1. /\ UNCHANGED <<config, file, call, now, skew, upset, floor, Wall>> /\ Quiet
          /\ news > 0 /\ news' = news - 1
        BY DEF Publish, Quiet, clock, Wall
    <1>2. PICK v \in Revs : v = listing[u]  BY DEF Types
    <1>3. v + news <= MaxRev /\ news \in Nat  BY <1>2 DEF ServerInv, Types
    <1>4. v + 1 \in Revs  BY <1>1, <1>2, <1>3, NamesType DEF Revs
    <1>5. now \in 0 .. Never /\ now \in Nat /\ now < Never
        BY ListCacheAssumption DEF Types, Never
    <1>6. /\ listing' \in [URLs -> Revs] /\ gone' \in [URLs -> [Revs -> 0 .. Never]]
          /\ \A w \in URLs : listing'[w] = IF w = u THEN v + 1 ELSE listing[w]
          /\ \A w \in URLs, r \in Revs : gone'[w][r] = IF w = u /\ r = v THEN now ELSE gone[w][r]
        BY <1>2, <1>4, <1>5 DEF Publish, Types
    <1>7. Types'  BY <1>1, <1>3, <1>6 DEF Types
    <1>8. ServerInv'
        <2> SUFFICES ASSUME NEW w \in URLs
                     PROVE  /\ floor[w] <= listing'[w]
                            /\ listing'[w] + news' <= MaxRev
                            /\ \A r \in Revs : IF r >= listing'[w] THEN gone'[w][r] = Never ELSE gone'[w][r] <= now
            BY <1>1 DEF ServerInv
        <2>1. listing[w] \in Nat /\ floor[w] \in Nat
            <3>1. listing[w] \in Revs /\ floor[w] \in 0 .. MaxRev  BY DEF Types
            <3>2. Revs \subseteq Nat /\ MaxRev \in Nat  BY NamesType
            <3>3. listing[w] \in Nat  BY <3>1, <3>2
            <3>4. \A k \in 0 .. MaxRev : k \in Nat  BY <3>2
            <3> QED  BY <3>1, <3>3, <3>4
        <2>2. CASE w = u
            BY <1>1, <1>2, <1>3, <1>4, <1>5, <1>6, <2>1, <2>2, NamesType DEF ServerInv
        <2>3. CASE w # u
            BY <1>1, <1>3, <1>6, <2>1, <2>3, NamesType DEF ServerInv
        <2> QED  BY <2>2, <2>3
    <1>a. ASSUME NEW w \in URLs, NEW n \in Revs, n <= listing[w] PROVE n <= listing'[w]
        <2>1. n \in Nat /\ v \in Nat  BY NamesType
        <2> QED  BY <1>2, <1>6, <1>a, <2>1
    <1>9. ASSUME NEW x, Sound(x) PROVE Sound(x)'
        <2>1. x \in Entry /\ x.url \in URLs /\ x.names[2] \in Revs /\ x.at \in Int
            BY <1>9, SoundFields DEF Sound
        <2>2. x.names[2] <= listing'[x.url]
            BY <1>9, <1>a, <2>1 DEF Sound
        <2>3. upset = {} => now - gone'[x.url][x.names[2]] <= Timeout + (Wall - x.at)
            <3>1. Wall \in Int  BY DEF Wall, Types
            <3> QED  BY <1>5, <1>6, <1>9, <2>1, <3>1, ListCacheAssumption DEF Sound
        <2> QED  BY <1>1, <1>9, <2>1, <2>2, <2>3 DEF Sound
    <1>10. ASSUME NEW c \in Clients, SoundCall(call[c]) PROVE SoundCall(call[c])'
        <2>1. PICK x \in Call : x = call[c]  BY DEF Types
        <2>2. SoundCall(x)  BY <1>10, <2>1
        <2>3. SoundAnswer(x) /\ x.url \in URLs /\ x.sent <= now /\ (x.entry # NoEntry => Sound(x.entry)) => SoundAnswer(x)'
            <3> SUFFICES ASSUME SoundAnswer(x), x.url \in URLs, x.sent <= now, x.entry # NoEntry => Sound(x.entry)
                         PROVE  SoundAnswer(x)'
                OBVIOUS
            <3>0. x.answer.status = 200 => x.answer.names[2] \in Revs
                BY NamesType DEF SoundAnswer
            <3>1. x.answer.status = 200 => x.answer.names[2] <= listing'[x.url]
                BY <1>a, <3>0 DEF SoundAnswer
            <3>2. \A r \in Revs : x.sent <= gone[x.url][r] => x.sent <= gone'[x.url][r]
                BY <1>6
            <3>3. x.answer.status = 200 => x.sent <= gone'[x.url][x.answer.names[2]]
                BY <3>0, <3>2 DEF SoundAnswer
            <3>4. (x.answer.status = 304 /\ upset = {}) => x.sent <= gone'[x.url][x.entry.names[2]]
                BY <3>2, SoundFields DEF SoundAnswer
            <3> QED  BY <1>1, <3>1, <3>3, <3>4 DEF SoundAnswer
        <2>4. SoundCall(x)'  BY <1>1, <1>9, <2>2, <2>3 DEF SoundCall
        <2> QED  BY <1>1, <2>1, <2>4
    <1> QED  BY <1>1, <1>7, <1>8, <1>9, <1>10, WorldChanges

LEMMA ConfigureGood ==
    ASSUME IInv, NEW u \in URLs, Configure(u)
    PROVE  Good'
    <1>1. /\ UNCHANGED <<listing, gone, file, call, clock, upset, floor, news>> /\ Quiet
          /\ config' = u
        BY DEF Configure, Quiet
    <1>2. Types' /\ ServerInv'  BY <1>1 DEF IInv, Types, ServerInv, clock
    <1>3. \A x : (Sound(x) => Sound(x)') /\ (SoundCall(x) => SoundCall(x)')
        BY <1>1, SameWorld
    <1>4. \A c \in Clients : SoundCall(call[c]) => SoundCall(call[c])'
        BY <1>1, <1>3
    <1> QED  BY <1>1, <1>2, <1>3, <1>4, WorldChanges

\* Entries age as time passes, and no client waits longer than the timeout.
LEMMA TickGood ==
    ASSUME IInv, Tick
    PROVE  Good'
    <1> USE DEF IInv
    <1>1. /\ UNCHANGED <<config, listing, gone, file, call, skew, upset, floor, news>> /\ Quiet
          /\ now' = now + 1 /\ now < MaxTime /\ Wall' = Wall + 1
        BY DEF Tick, Quiet, server, bounds, Wall, Types
    <1>2. now \in Nat /\ now' \in 0 .. MaxTime /\ Wall \in Int
        BY <1>1, ListCacheAssumption DEF Types, Wall
    <1>3. Types' /\ ServerInv'
        <2>1. Types'  BY <1>1, <1>2 DEF Types
        <2>2. \A w \in URLs, r \in Revs : gone[w][r] \in Nat  BY NamesType DEF Types
        <2> QED  BY <1>1, <1>2, <2>1, <2>2 DEF ServerInv
    <1>4. ASSUME NEW x, Sound(x) PROVE Sound(x)'
        <2>1. x.at \in Int /\ gone[x.url][x.names[2]] \in Int  BY <1>4, SoundFields, NamesType
        <2> QED  BY <1>1, <1>2, <1>4, <2>1, ListCacheAssumption DEF Sound
    <1>5. ASSUME NEW c \in Clients, SoundCall(call[c]) PROVE SoundCall(call[c])'
        <2>1. PICK x \in Call : x = call[c]  BY DEF Types
        <2>2. SoundCall(x) /\ x.sent \in Nat  BY <1>5, <2>1 DEF Call
        <2>3. x.pc = "await" => x.sent <= now' /\ now' <= x.sent + Timeout
            BY <1>1, <1>2, <2>1, <2>2, ListCacheAssumption DEF Tick, At, SoundCall
        <2>4. SoundAnswer(x) => SoundAnswer(x)'  BY <1>1 DEF SoundAnswer
        <2>5. SoundCall(x)'  BY <1>1, <1>4, <2>2, <2>3, <2>4 DEF SoundCall
        <2> QED  BY <1>1, <2>1, <2>5
    <1> QED  BY <1>1, <1>3, <1>4, <1>5, WorldChanges

\* A clock that is set forward makes entries look older; set back, it is upset.
LEMMA SetClockGood ==
    ASSUME IInv, NEW s \in {-1, 0, 1}, SetClock(s)
    PROVE  Good'
    <1> USE DEF IInv
    <1>1. /\ UNCHANGED <<config, listing, gone, file, call, now, floor, news>> /\ Quiet
          /\ skew' = s /\ skew \in Int /\ s \in Int /\ now \in Int
        BY DEF SetClock, Quiet, server, Types
    <1>2. upset' = {} => upset = {} /\ Wall <= Wall' /\ Wall \in Int /\ Wall' \in Int
        BY <1>1 DEF SetClock, Wall
    <1>3. Types' /\ ServerInv'  BY <1>1 DEF Types, ServerInv
    <1>4. ASSUME NEW x, Sound(x) PROVE Sound(x)'
        <2>1. x.at \in Int /\ gone[x.url][x.names[2]] \in Int  BY <1>4, SoundFields, NamesType
        <2> QED  BY <1>1, <1>2, <1>4, <2>1, ListCacheAssumption DEF Sound
    <1>5. ASSUME NEW c \in Clients, SoundCall(call[c]) PROVE SoundCall(call[c])'
        <2>1. PICK x \in Call : x = call[c]  BY DEF Types
        <2>2. SoundAnswer(x) => SoundAnswer(x)'  BY <1>1, <1>2 DEF SoundAnswer
        <2>3. SoundCall(x)'  BY <1>1, <1>2, <1>4, <1>5, <2>1, <2>2 DEF SoundCall
        <2> QED  BY <1>1, <2>1, <2>3
    <1> QED  BY <1>1, <1>3, <1>4, <1>5, WorldChanges
-----------------------------------------------------------------------------
LEMMA NextGood == Good /\ [Next]_vars => Good'
    <1> SUFFICES ASSUME Good, [Next]_vars PROVE Good'  OBVIOUS
    <1>1. ASSUME NEW c \in Clients, NEW mode \in Modes, Begin(c, mode) PROVE Good'
        BY <1>1, BeginGood DEF Good
    <1>2. ASSUME NEW c \in Clients,
                 Load(c) \/ Send(c) \/ Answer(c) \/ AnswerWrongly(c) \/ Receive(c) \/ ReceiveNotModified(c)
          PROVE  Good'
        BY <1>2, LoadGood, SendGood, AnswerGood, AnswerWronglyGood, ReceiveGood, ReceiveNotModifiedGood DEF Good
    <1>3. ASSUME NEW c \in Clients,
                 \/ FetchFails(c) \/ Cancel(c) \/ TimesOut(c) \/ Crash(c)
                 \/ Open(c) \/ OpenFails(c) \/ Write(c) \/ WriteFails(c)
          PROVE  Good'
        BY <1>3, FetchFailsGood, GivesUpGood, OpenGood, SavesGood DEF Good
    <1>4. ASSUME NEW u \in URLs, Publish(u) \/ Configure(u) PROVE Good'
        BY <1>4, PublishGood, ConfigureGood DEF Good
    <1>5. CASE Tick \/ \E s \in {-1, 0, 1} : SetClock(s)
        BY <1>5, TickGood, SetClockGood DEF Good
    <1>6. CASE UNCHANGED vars
        <2>1. /\ UNCHANGED <<config, listing, gone, file, call, clock, upset, floor, shown, news>>
              /\ UNCHANGED <<server, now, skew>>
            BY <1>6 DEF vars, server, clock, bounds
        <2>2. \A x : (Sound(x) => Sound(x)') /\ (SoundCall(x) => SoundCall(x)')
            BY <2>1, SameWorld
        <2>3. Types' /\ ServerInv'  BY <2>1 DEF Good, IInv, Types, ServerInv
        <2>4. FileInv' /\ CallInv' /\ AloneInv'
            BY <2>1, <2>2 DEF Good, IInv, FileInv, CallInv, AloneInv, At, Running
        <2>5. ServedIsRecent' /\ NeverGoesBack'
            BY <2>1 DEF Good, ServedIsRecent, NeverGoesBack, Recent
        <2> QED  BY <2>3, <2>4, <2>5 DEF Good, IInv
    <1> QED  BY <1>1, <1>2, <1>3, <1>4, <1>5, <1>6 DEF Next

LEMMA GoodAlways == Spec => []Good
    BY InitGood, NextGood, PTL DEF Spec

\* Whatever is in the cache - of another URL, torn, written by a slower client -
\* what a call returns is a listing of the configured URL, and one that the
\* server still had within the TTL and the timeout, unless it is marked stale.
THEOREM RecentIsServed == Spec => []ServedIsRecent
    BY GoodAlways, PTL DEF Good

\* No call returns an older listing than one that a call which ran alone has
\* returned and saved before, however the calls since then overlapped.
THEOREM ListingsNeverGoBack == Spec => []NeverGoesBack
    BY GoodAlways, PTL DEF Good
=============================================================================
