------------------------ MODULE OpenCodePlugin_proofs ------------------------
(***************************************************************************)
(* Theorems of the OpenCode plugin, for any calls, sessions and children   *)
(* and however their hooks and events are interleaved.                     *)
(*                                                                         *)
(* OneCall and Told follow a single call through the promise tables: which *)
(* of them may hold it at once, and what the last post about it was.       *)
(***************************************************************************)
EXTENDS OpenCodePlugin, SequenceTheorems, TLAPS

PostKinds == {"start dispatch", "start tool", "end tool", "end dispatch"}
Proper == <<"start dispatch", "start tool", "end tool", "end dispatch">>

MayFollow(x, y) ==
    \/ <<x, y>> \in {<<"start dispatch", "start dispatch">>, <<"start tool", "start dispatch">>,
                     <<"end tool", "end tool">>, <<"end dispatch", "end tool">>}
    \/ \E j \in 1..3 : x = Proper[j] /\ y = Proper[j + 1]

InOrder(s) ==
    /\ s \in Seq(PostKinds)
    /\ \A i \in 1..Len(s) - 1 : MayFollow(s[i], s[i + 1])

(* The posts made for a call that no refusal disturbed. *)
Shown(c) ==
    IF c \in completed \/ ending[c] = "dispatch" THEN 4
    ELSE IF ending[c] = "tool" THEN 3
    ELSE IF c \in reserved \/ start[c] = "tool" THEN 2
    ELSE IF start[c] = "dispatch" THEN 1 ELSE 0

(* What the last post may have been. *)
LastPosts(c) ==
    IF c \in completed \/ ending[c] = "dispatch" THEN {"end dispatch"}
    ELSE IF ending[c] = "tool" THEN {"end tool"}
    ELSE IF c \in reserved THEN {"start tool", "end tool", "end dispatch"}
    ELSE IF start[c] = "tool" THEN {"start tool"}
    ELSE IF start[c] = "dispatch" THEN {"start dispatch"}
    ELSE {"start dispatch", "start tool"}

Told(c) ==
    /\ InOrder(posts[c])
    /\ posts[c] = <<>> => Shown(c) = 0
    /\ posts[c] # <<>> => Last(posts[c]) \in LastPosts(c)
    /\ faults = 0 => /\ Len(posts[c]) = Shown(c)
                     /\ \A i \in 1..Len(posts[c]) : posts[c][i] = Proper[i]

(* Which tables hold a call, and what OpenCode does with it meanwhile. *)
OneCall(c) ==
    /\ start[c] # "none" => c \notin reserved /\ c \notin completed
    /\ start[c] = "tool" => c \in dispatched
    /\ c \in reserved => c \in dispatched
    /\ ending[c] # "none" => c \in reserved /\ call[c] \in {"after", "failed"}
    /\ call[c] = "after" => ending[c] # "none"
    /\ call[c] = "done" => c \in completed
    /\ errorHandler[c] # "none" => call[c] = "failed"
    /\ c \in completed => call[c] \in {"done", "failed"} /\ c \notin reserved

Types ==
    /\ gateOpen \in BOOLEAN
    /\ call \in [Calls -> {"issued", "before", "running", "after", "erring", "done", "failed"}]
    /\ errorHandler \in [Calls -> {"none", "starting", "ending", "handled", "thrown"}]
    /\ start \in [Calls -> {"none", "gate", "dispatch", "tool"}]
    /\ ending \in [Calls -> {"none", "tool", "dispatch"}]
    /\ dispatched \in SUBSET Calls /\ completed \in SUBSET Calls /\ reserved \in SUBSET Calls
    /\ posts = [c \in Calls |-> posts[c]]
    /\ faults \in 0..MaxFaults

CallInv == Types /\ \A c \in Calls : OneCall(c) /\ Told(c)

-----------------------------------------------------------------------------
(* What a post adds *)

LEMMA Appended ==
    ASSUME NEW s, InOrder(s), NEW x \in PostKinds, s # <<>> => MayFollow(Last(s), x)
    PROVE  /\ InOrder(Append(s, x)) /\ Append(s, x) # <<>> /\ Last(Append(s, x)) = x
           /\ Len(s) \in Nat /\ Len(Append(s, x)) = Len(s) + 1
           /\ \A i \in 1..Len(s) : Append(s, x)[i] = s[i]
           /\ Append(s, x)[Len(s) + 1] = x
<1> DEFINE t == Append(s, x)
           n == Len(s)
<1>1. s \in Seq(PostKinds) /\ n \in Nat
  BY DEF InOrder
<1>2. /\ t \in Seq(PostKinds) /\ t # <<>> /\ Len(t) = n + 1
      /\ \A i \in 1..n : t[i] = s[i]
      /\ t[n + 1] = x
  BY <1>1, AppendProperties
<1>3. s # <<>> => MayFollow(s[n], x)
  BY DEF Last
<1>4. n > 0 => s # <<>>
  BY EmptySeq
<1>5. \A i \in 1..n - 1 : MayFollow(s[i], s[i + 1])
  BY DEF InOrder
<1>6. Last(t) = x
  BY <1>2 DEF Last
<1> HIDE DEF t, n
<1>7. ASSUME NEW i \in 1..Len(t) - 1
      PROVE  MayFollow(t[i], t[i + 1])
  <2>1. CASE i = n
    BY <1>1, <1>2, <1>3, <1>4, <2>1
  <2>2. CASE i # n
    BY <1>1, <1>2, <1>5, <2>2
  <2> QED BY <2>1, <2>2
<1>8. InOrder(t)
  BY <1>2, <1>7 DEF InOrder
<1> QED BY <1>1, <1>2, <1>6, <1>8 DEF t, n

(* The posts of a call after one more. *)
Lengthened(c, x) ==
    /\ InOrder(posts'[c]) /\ posts'[c] # <<>> /\ Last(posts'[c]) = x
    /\ Len(posts[c]) \in Nat /\ Len(posts'[c]) = Len(posts[c]) + 1
    /\ \A i \in 1..Len(posts[c]) : posts'[c][i] = posts[c][i]
    /\ posts'[c][Len(posts[c]) + 1] = x

Posted(c, x) ==
    /\ Lengthened(c, x)
    /\ posts' = [d \in Calls |-> posts'[d]] /\ \A d \in Calls \ {c} : posts'[d] = posts[d]

LEMMA Lengthening ==
    ASSUME NEW c, InOrder(posts[c]), NEW x \in PostKinds, posts'[c] = Append(posts[c], x),
           posts[c] # <<>> => MayFollow(Last(posts[c]), x)
    PROVE  Lengthened(c, x)
BY Appended DEF Lengthened

LEMMA Posting ==
    ASSUME Types, NEW c \in Calls, Told(c), NEW x \in PostKinds, Post(c, x),
           posts[c] # <<>> => MayFollow(Last(posts[c]), x)
    PROVE  Posted(c, x)
<1>1. posts = [d \in Calls |-> posts[d]]
  BY DEF Types
<1>2. posts' = [posts EXCEPT ![c] = Append(posts[c], x)]
  BY DEF Post
<1>3. /\ posts'[c] = Append(posts[c], x)
      /\ posts' = [d \in Calls |-> posts'[d]] /\ \A d \in Calls \ {c} : posts'[d] = posts[d]
  BY ONLY <1>1, <1>2, c \in Calls
<1>4. InOrder(posts[c])
  BY DEF Told
<1> QED BY ONLY <1>3, <1>4, x \in PostKinds, posts[c] # <<>> => MayFollow(Last(posts[c]), x), Appended DEF Posted, Lengthened

(* The post is the next one, whatever the call's last posts were. *)
Advances(c, x) ==
    /\ Shown(c) \in 0..3 /\ Shown(c)' = Shown(c) + 1
    /\ x = Proper[Shown(c) + 1] /\ x \in LastPosts(c)'

LEMMA Advancing ==
    ASSUME NEW c, NEW x, x \in LastPosts(c)'
    PROVE  /\ Shown(c) = 0 /\ Shown(c)' = 1 /\ x = "start dispatch" => Advances(c, x)
           /\ Shown(c) = 1 /\ Shown(c)' = 2 /\ x = "start tool" => Advances(c, x)
           /\ Shown(c) = 2 /\ Shown(c)' = 3 /\ x = "end tool" => Advances(c, x)
           /\ Shown(c) = 3 /\ Shown(c)' = 4 /\ x = "end dispatch" => Advances(c, x)
<1>1. /\ Proper[1] = "start dispatch" /\ Proper[2] = "start tool"
      /\ Proper[3] = "end tool" /\ Proper[4] = "end dispatch"
  BY DEF Proper
<1>2. \A n \in 0..3 : \A u, v : u = n /\ v = n + 1 => u \in 0..3 /\ v = u + 1 /\ u + 1 = v
  OBVIOUS
<1>3. /\ 0 \in 0..3 /\ 0 + 1 = 1 /\ 1 \in 0..3 /\ 1 + 1 = 2
      /\ 2 \in 0..3 /\ 2 + 1 = 3 /\ 3 \in 0..3 /\ 3 + 1 = 4
  OBVIOUS
<1> QED BY ONLY <1>1, <1>2, <1>3, x \in LastPosts(c)', Zenon DEF Advances

LEMMA Spoken ==
    ASSUME NEW c \in Calls, Told(c), NEW x, Lengthened(c, x), Advances(c, x), faults' = faults
    PROVE  Told(c)'
<1>1. /\ Len(posts[c]) \in Nat /\ Len(posts'[c]) = Len(posts[c]) + 1
      /\ \A i \in 1..Len(posts[c]) : posts'[c][i] = posts[c][i]
      /\ posts'[c][Len(posts[c]) + 1] = x
      /\ InOrder(posts'[c]) /\ posts'[c] # <<>> /\ Last(posts'[c]) = x
  BY DEF Lengthened
<1>2. ASSUME faults = 0
      PROVE  Len(posts'[c]) = Shown(c)' /\ \A i \in 1..Len(posts'[c]) : posts'[c][i] = Proper[i]
  <2>1. Len(posts[c]) = Shown(c) /\ \A i \in 1..Len(posts[c]) : posts[c][i] = Proper[i]
    BY <1>2 DEF Told
  <2>2. x = Proper[Len(posts[c]) + 1] /\ Len(posts'[c]) = Shown(c)'
    BY <1>1, <1>2, <2>1 DEF Advances
  <2>3. ASSUME NEW i \in 1..Len(posts'[c]) PROVE posts'[c][i] = Proper[i]
    <3>1. i \in 1..Len(posts[c]) \/ i = Len(posts[c]) + 1
      BY ONLY <1>1, i \in 1..Len(posts'[c])
    <3> QED BY ONLY <1>1, <2>1, <2>2, <3>1
  <2> QED BY ONLY <2>2, <2>3
<1>3. InOrder(posts[c])' /\ (posts[c] # <<>>)' /\ Last(posts[c])' = x
  BY <1>1 DEF InOrder, Last, MayFollow
<1>4. Shown(c)' # 0 /\ x \in LastPosts(c)'
  BY DEF Advances
<1>5. faults' = 0 => faults = 0
  OBVIOUS
<1> QED BY <1>1, <1>2, <1>3, <1>4, <1>5 DEF Told

LEMMA Silent ==
    ASSUME NEW c \in Calls, Told(c), posts'[c] = posts[c], LastPosts(c) \subseteq LastPosts(c)',
           Shown(c) = 0 => Shown(c)' = 0, faults' = 0 => faults = 0 /\ Shown(c)' = Shown(c)
    PROVE  Told(c)'
BY DEF Told, InOrder, Last

(* What startTool and finish leave of a call. *)
Started(c) ==
    /\ start' \in [Calls -> {"none", "gate", "dispatch", "tool"}]
    /\ posts' = [d \in Calls |-> posts'[d]]
    /\ \A d \in Calls \ {c} : start'[d] = start[d] /\ posts'[d] = posts[d]
    /\ start'[c] = start[c] \/ (c \notin reserved /\ start[c] = "none" /\ start'[c] \in {"gate", "dispatch"})
    /\ Told(c)'

LEMMA Starting ==
    ASSUME Types, NEW c \in Calls, OneCall(c), Told(c), c \notin completed, StartTool(c),
           UNCHANGED <<reserved, completed, ending, faults>>
    PROVE  Started(c)
<1>1. start \in [Calls -> {"none", "gate", "dispatch", "tool"}] /\ posts = [d \in Calls |-> posts[d]]
  BY DEF Types
<1>2. CASE UNCHANGED <<start, posts>>
  <2>1. Told(c)'
    BY <1>2 DEF Told, InOrder, Last, Shown, LastPosts
  <2>2. /\ start' \in [Calls -> {"none", "gate", "dispatch", "tool"}]
        /\ posts' = [d \in Calls |-> posts'[d]]
        /\ start'[c] = start[c]
        /\ \A d \in Calls \ {c} : start'[d] = start[d] /\ posts'[d] = posts[d]
    BY ONLY <1>1, <1>2
  <2> QED BY <2>1, <2>2 DEF Started
<1>3. CASE c \notin reserved /\ start[c] = "none" /\ start' = [start EXCEPT ![c] = "gate"]
           /\ UNCHANGED posts
  <2>1. /\ start' \in [Calls -> {"none", "gate", "dispatch", "tool"}] /\ start'[c] = "gate"
        /\ posts' = [d \in Calls |-> posts'[d]]
        /\ \A d \in Calls \ {c} : start'[d] = start[d] /\ posts'[d] = posts[d]
    BY ONLY <1>1, <1>3, c \in Calls
  <2>2. Told(c)'
    <3>1. Shown(c)' = Shown(c) /\ LastPosts(c)' = LastPosts(c) /\ posts'[c] = posts[c]
      BY <1>3, <2>1 DEF Shown, LastPosts
    <3> QED BY <3>1, Silent
  <2> QED BY <1>3, <2>1, <2>2 DEF Started
<1>4. CASE c \notin reserved /\ start[c] = "none" /\ start' = [start EXCEPT ![c] = "dispatch"]
           /\ Post(c, "start dispatch")
  <2>1. start' \in [Calls -> {"none", "gate", "dispatch", "tool"}] /\ start'[c] = "dispatch"
        /\ \A d \in Calls \ {c} : start'[d] = start[d]
    BY ONLY <1>1, <1>4, c \in Calls
  <2>2. ending[c] = "none"
    BY <1>4 DEF OneCall, Types
  <2>3. posts[c] # <<>> => Last(posts[c]) \in {"start dispatch", "start tool"}
    BY <1>4, <2>2 DEF Told, LastPosts
  <2>4. Posted(c, "start dispatch")
    BY <1>4, <2>3, Posting DEF PostKinds, MayFollow
  <2>5. Told(c)'
    <3>1. "start dispatch" \in LastPosts(c)' /\ Shown(c) = 0 /\ Shown(c)' = 1
      BY <1>4, <2>1, <2>2 DEF Shown, LastPosts
    <3>2. Advances(c, "start dispatch")
      BY <3>1, Advancing
    <3> QED BY <2>4, <3>2, Spoken DEF Posted
  <2> QED BY <1>4, <2>1, <2>4, <2>5 DEF Started, Posted
<1> QED BY <1>2, <1>3, <1>4 DEF StartTool

Finishing(c) ==
    /\ ending' \in [Calls -> {"none", "tool", "dispatch"}] /\ ending'[c] = "tool"
    /\ posts' = [d \in Calls |-> posts'[d]]
    /\ \A d \in Calls \ {c} : ending'[d] = ending[d] /\ posts'[d] = posts[d]
    /\ Told(c)'

LEMMA Ending ==
    ASSUME Types, NEW c \in Calls, OneCall(c), Told(c), c \in reserved, ending[c] = "none",
           Finish(c), UNCHANGED <<start, reserved, completed, faults>>
    PROVE  Finishing(c)
<1>1. ending \in [Calls -> {"none", "tool", "dispatch"}] /\ c \notin completed
  BY DEF Types, OneCall
<1>2. ending' = [ending EXCEPT ![c] = "tool"] /\ Post(c, "end tool")
  BY <1>1 DEF Finish
<1>3. /\ ending' \in [Calls -> {"none", "tool", "dispatch"}] /\ ending'[c] = "tool"
      /\ \A d \in Calls \ {c} : ending'[d] = ending[d]
  BY ONLY <1>1, <1>2, c \in Calls
<1>4. posts[c] # <<>> => Last(posts[c]) \in {"start tool", "end tool", "end dispatch"}
  BY <1>1 DEF Told, LastPosts
<1>5. /\ Proper[1] = "start dispatch" /\ Proper[2] = "start tool"
      /\ Proper[3] = "end tool" /\ Proper[4] = "end dispatch"
  BY DEF Proper
<1>6. Posted(c, "end tool")
  <2>1. MayFollow("start tool", "end tool")
    <3>0. 2 + 1 = 3 /\ 2 \in 1..3
      OBVIOUS
    <3>1. 2 \in 1..3 /\ "start tool" = Proper[2] /\ "end tool" = Proper[2 + 1]
      BY ONLY <1>5, <3>0, Zenon
    <3> QED BY <3>1 DEF MayFollow
  <2>2. posts[c] # <<>> => MayFollow(Last(posts[c]), "end tool")
    BY <1>4, <2>1 DEF MayFollow
  <2> QED BY <1>2, <2>2, Posting DEF PostKinds
<1>7. "end tool" \in LastPosts(c)' /\ Shown(c) = 2 /\ Shown(c)' = 3
  BY <1>1, <1>3 DEF Shown, LastPosts
<1>8. Told(c)'
  <2>1. Advances(c, "end tool")
    BY <1>7, Advancing
  <2> QED BY <1>6, <2>1, Spoken DEF Posted
<1> QED BY <1>3, <1>6, <1>8 DEF Finishing, Posted

-----------------------------------------------------------------------------
(* Every step follows one call, or opens the gate *)

Others(c) ==
    \A d \in Calls \ {c} :
        /\ call'[d] = call[d] /\ errorHandler'[d] = errorHandler[d] /\ start'[d] = start[d]
        /\ ending'[d] = ending[d] /\ posts'[d] = posts[d]
        /\ d \in dispatched' <=> d \in dispatched
        /\ d \in reserved' <=> d \in reserved
        /\ d \in completed' <=> d \in completed

Stepped(c) ==
    Types' /\ OneCall(c)' /\ Told(c)' /\ Others(c) /\ (faults' = 0 => faults = 0)

LEMMA OneCallSteps ==
    ASSUME CallInv, NEW c \in Calls, Stepped(c)
    PROVE  CallInv'
<1>1. ASSUME NEW d \in Calls \ {c} PROVE OneCall(d)' /\ Told(d)'
  <2>1. OneCall(d) /\ Told(d)
    BY DEF CallInv
  <2>2. /\ call'[d] = call[d] /\ errorHandler'[d] = errorHandler[d] /\ start'[d] = start[d]
        /\ ending'[d] = ending[d] /\ posts'[d] = posts[d]
        /\ d \in dispatched' <=> d \in dispatched
        /\ d \in reserved' <=> d \in reserved
        /\ d \in completed' <=> d \in completed
    BY DEF Stepped, Others
  <2>3. OneCall(d)'
    BY ONLY <2>1, <2>2 DEF OneCall
  <2>4. Shown(d)' = Shown(d) /\ LastPosts(d)' = LastPosts(d)
    BY ONLY <2>2 DEF Shown, LastPosts
  <2>5. faults' = 0 => faults = 0
    BY DEF Stepped
  <2>6. Told(d)'
    BY <2>1, <2>2, <2>4, <2>5, Silent
  <2> QED BY <2>3, <2>6
<1>2. Types' /\ OneCall(c)' /\ Told(c)'
  BY DEF Stepped
<1> QED BY <1>1, <1>2 DEF CallInv

LEMMA GateOpens ==
    ASSUME CallInv, OpenGate
    PROVE  CallInv'
<1>1. /\ gateOpen' = TRUE
      /\ start' = [c \in Calls |-> IF start[c] = "gate" THEN "dispatch" ELSE start[c]]
      /\ posts' = [c \in Calls |-> IF start[c] = "gate" THEN Append(posts[c], "start dispatch")
                                 ELSE posts[c]]
      /\ UNCHANGED <<call, errorHandler, dispatched, reserved, ending, completed, faults>>
  BY DEF OpenGate
<1>2. Types /\ \A c \in Calls : OneCall(c) /\ Told(c)
  BY DEF CallInv
<1>3. Types'
  BY <1>1, <1>2 DEF Types
<1>4. ASSUME NEW c \in Calls
      PROVE  OneCall(c)' /\ Told(c)'
  <2>1. start[c] \in {"none", "gate", "dispatch", "tool"}
    BY <1>2 DEF Types
  <2>2. start'[c] = IF start[c] = "gate" THEN "dispatch" ELSE start[c]
    BY <1>1
  <2>3. OneCall(c)'
    BY <1>1, <1>2, <2>1, <2>2 DEF OneCall
  <2>4. CASE start[c] # "gate"
    <3>1. posts'[c] = posts[c] /\ start'[c] = start[c]
      BY <1>1, <2>4
    <3>2. Shown(c)' = Shown(c) /\ LastPosts(c)' = LastPosts(c) /\ faults' = faults
      BY <1>1, <3>1 DEF Shown, LastPosts
    <3>3. Told(c)'
      BY <1>2, <3>1, <3>2, Silent
    <3> QED BY <2>3, <3>3
  <2>5. CASE start[c] = "gate"
    <3>1. posts'[c] = Append(posts[c], "start dispatch") /\ start'[c] = "dispatch"
      BY <1>1, <2>5
    <3>2. ending[c] = "none" /\ c \notin reserved /\ c \notin completed
      BY <1>2, <2>5 DEF OneCall, Types
    <3>3. posts[c] # <<>> => Last(posts[c]) \in {"start dispatch", "start tool"}
      BY <1>2, <2>5, <3>2 DEF Told, LastPosts
    <3>4. posts[c] # <<>> => MayFollow(Last(posts[c]), "start dispatch")
      BY <3>3 DEF MayFollow
    <3>5. InOrder(posts[c]) /\ "start dispatch" \in PostKinds
      BY <1>2 DEF Told, PostKinds
    <3>6. "start dispatch" \in LastPosts(c)' /\ Shown(c) = 0 /\ Shown(c)' = 1
      BY <1>1, <2>5, <3>1, <3>2 DEF Shown, LastPosts
    <3>7. Advances(c, "start dispatch")
      BY <3>6, Advancing
    <3>8. Lengthened(c, "start dispatch")
      BY <3>1, <3>4, <3>5, Lengthening
    <3>9. Told(c)'
      BY <1>1, <1>2, <3>7, <3>8, Spoken
    <3> QED BY <2>3, <3>9
  <2> QED BY <2>4, <2>5
<1> QED BY <1>3, <1>4 DEF CallInv

LEMMA DispatchGranting ==
    ASSUME CallInv, NEW c \in Calls, DispatchGranted(c)
    PROVE  Stepped(c)
<1>0. Types /\ OneCall(c) /\ Told(c)
  BY DEF CallInv
<1>1. /\ start[c] = "dispatch" /\ dispatched' = dispatched \cup {c}
      /\ start' = [start EXCEPT ![c] = "tool"] /\ Post(c, "start tool")
      /\ UNCHANGED <<gateOpen, call, errorHandler, reserved, ending, completed, faults>>
  BY DEF DispatchGranted
<1>2. c \notin reserved /\ c \notin completed /\ ending[c] = "none" /\ start'[c] = "tool"
  BY <1>0, <1>1 DEF OneCall, Types
<1>3. posts[c] # <<>> => Last(posts[c]) = "start dispatch"
  BY <1>0, <1>1, <1>2 DEF Told, LastPosts
<1>4. MayFollow("start dispatch", "start tool")
  <2>1. 1 + 1 = 2 /\ 1 \in 1..3 /\ Proper[1] = "start dispatch" /\ Proper[2] = "start tool"
    BY DEF Proper
  <2> QED BY ONLY <2>1, Zenon DEF MayFollow
<1>5. Posted(c, "start tool")
  BY <1>0, <1>1, <1>3, <1>4, Posting DEF PostKinds
<1>6. Told(c)'
  <2>1. "start tool" \in LastPosts(c)' /\ Shown(c) = 1 /\ Shown(c)' = 2
    BY <1>1, <1>2 DEF Shown, LastPosts
  <2>2. Advances(c, "start tool")
    BY <2>1, Advancing
  <2> QED BY <1>0, <1>1, <1>5, <2>2, Spoken DEF Posted
<1>7. Types'
  BY <1>0, <1>1, <1>5 DEF Types, Posted
<1>8. OneCall(c)'
  BY <1>0, <1>1, <1>2 DEF OneCall
<1>9. Others(c)
  BY <1>0, <1>1, <1>5 DEF Others, Types, Posted
<1> QED BY <1>1, <1>6, <1>7, <1>8, <1>9 DEF Stepped

LEMMA ToolGranting ==
    ASSUME CallInv, NEW c \in Calls, ToolGranted(c)
    PROVE  Stepped(c)
<1>0. Types /\ OneCall(c) /\ Told(c)
  BY DEF CallInv
<1>1. /\ start[c] = "tool" /\ reserved' = reserved \cup {c}
      /\ start' = [start EXCEPT ![c] = "none"]
      /\ call' = [call EXCEPT ![c] = IF @ = "before" THEN "running" ELSE @]
      /\ UNCHANGED <<gateOpen, dispatched, completed, faults>>
      /\ \/ /\ errorHandler[c] = "starting"
            /\ errorHandler' = [errorHandler EXCEPT ![c] = "ending"]
            /\ ending' = [ending EXCEPT ![c] = "tool"]
            /\ Post(c, "end tool")
         \/ errorHandler[c] # "starting" /\ UNCHANGED <<errorHandler, ending, posts>>
  BY DEF ToolGranted
<1>2. c \notin reserved /\ c \notin completed /\ c \in dispatched /\ ending[c] = "none"
      /\ start'[c] = "none" /\ call[c] # "after" /\ call[c] # "done"
  BY <1>0, <1>1 DEF OneCall, Types
<1>3. CASE errorHandler[c] = "starting"
  <2>1. call[c] = "failed" /\ call' = call
    BY <1>0, <1>1, <1>3 DEF OneCall, Types
  <2>2. /\ errorHandler' = [errorHandler EXCEPT ![c] = "ending"]
        /\ ending' = [ending EXCEPT ![c] = "tool"] /\ Post(c, "end tool")
    BY <1>1, <1>3
  <2>3. posts[c] # <<>> => Last(posts[c]) = "start tool"
    BY <1>0, <1>1, <1>2 DEF Told, LastPosts
  <2>4. MayFollow("start tool", "end tool")
    <3>1. 2 + 1 = 3 /\ 2 \in 1..3 /\ Proper[2] = "start tool" /\ Proper[3] = "end tool"
      BY DEF Proper
    <3> QED BY ONLY <3>1, Zenon DEF MayFollow
  <2>5. Posted(c, "end tool")
    BY <1>0, <2>2, <2>3, <2>4, Posting DEF PostKinds
  <2>6. Told(c)'
    <3>0. ending'[c] = "tool"
      BY <1>0, <2>2 DEF Types
    <3>1. "end tool" \in LastPosts(c)' /\ Shown(c) = 2 /\ Shown(c)' = 3
      BY <1>1, <1>2, <3>0 DEF Shown, LastPosts
    <3>2. Advances(c, "end tool")
      BY <3>1, Advancing
    <3> QED BY <1>0, <1>1, <2>5, <3>2, Spoken DEF Posted
  <2>7. Types'
    BY <1>0, <1>1, <2>1, <2>2, <2>5 DEF Types, Posted
  <2>8. OneCall(c)'
    BY <1>0, <1>1, <1>2, <2>1, <2>2 DEF OneCall, Types
  <2>9. Others(c)
    BY <1>0, <1>1, <2>1, <2>2, <2>5 DEF Others, Types, Posted
  <2> QED BY <1>1, <2>6, <2>7, <2>8, <2>9 DEF Stepped
<1>4. CASE errorHandler[c] # "starting"
  <2>1. UNCHANGED <<errorHandler, ending, posts>>
    BY <1>1, <1>4
  <2>2. Told(c)'
    <3>1. Shown(c)' = Shown(c) /\ LastPosts(c) \subseteq LastPosts(c)' /\ posts'[c] = posts[c]
      BY <1>1, <1>2, <2>1 DEF Shown, LastPosts
    <3> QED BY <1>0, <1>1, <3>1, Silent
  <2>3. Types'
    BY <1>0, <1>1, <2>1 DEF Types
  <2>4. OneCall(c)'
    BY <1>0, <1>1, <1>2, <2>1 DEF OneCall, Types
  <2>5. Others(c)
    BY <1>0, <1>1, <2>1 DEF Others, Types
  <2> QED BY <1>1, <2>2, <2>3, <2>4, <2>5 DEF Stepped
<1> QED BY <1>3, <1>4

LEMMA StartRejecting ==
    ASSUME CallInv, NEW c \in Calls, StartRejected(c)
    PROVE  Stepped(c)
<1>0. Types /\ OneCall(c) /\ Told(c) /\ MaxFaults \in Nat
  BY PluginAssumption DEF CallInv
<1>1. /\ start[c] \in {"dispatch", "tool"} /\ faults < MaxFaults /\ faults' = faults + 1
      /\ start' = [start EXCEPT ![c] = "none"]
      /\ call' = [call EXCEPT ![c] = IF @ = "before" THEN "erring" ELSE @]
      /\ errorHandler' = [errorHandler EXCEPT ![c] = IF @ = "starting" THEN "thrown" ELSE @]
      /\ UNCHANGED <<gateOpen, dispatched, reserved, ending, completed, posts>>
  BY DEF StartRejected
<1>2. faults' # 0 /\ faults' \in 0..MaxFaults
  BY <1>0, <1>1 DEF Types
<1>3. c \notin reserved /\ c \notin completed /\ ending[c] = "none" /\ start'[c] = "none"
  BY <1>0, <1>1 DEF OneCall, Types
<1>4. Types'
  BY <1>0, <1>1, <1>2 DEF Types
<1>5. OneCall(c)'
  BY <1>0, <1>1, <1>3 DEF OneCall, Types
<1>6. Told(c)'
  <2>1. LastPosts(c) \subseteq LastPosts(c)' /\ Shown(c)' = 0 /\ posts'[c] = posts[c]
    BY <1>1, <1>3 DEF Shown, LastPosts
  <2> QED BY <1>0, <1>2, <2>1, Silent
<1>7. Others(c)
  BY <1>0, <1>1 DEF Others, Types
<1> QED BY <1>2, <1>4, <1>5, <1>6, <1>7 DEF Stepped

LEMMA ToolEnding ==
    ASSUME CallInv, NEW c \in Calls, ToolEndTaken(c)
    PROVE  Stepped(c)
<1>0. Types /\ OneCall(c) /\ Told(c)
  BY DEF CallInv
<1>1. /\ ending[c] = "tool" /\ ending' = [ending EXCEPT ![c] = "dispatch"]
      /\ Post(c, "end dispatch")
      /\ UNCHANGED <<gateOpen, call, errorHandler, start, dispatched, reserved, completed, faults>>
  BY DEF ToolEndTaken
<1>2. c \in reserved /\ c \notin completed /\ ending'[c] = "dispatch"
  BY <1>0, <1>1 DEF OneCall, Types
<1>3. posts[c] # <<>> => Last(posts[c]) = "end tool"
  BY <1>0, <1>1, <1>2 DEF Told, LastPosts
<1>4. MayFollow("end tool", "end dispatch")
  <2>1. 3 + 1 = 4 /\ 3 \in 1..3 /\ Proper[3] = "end tool" /\ Proper[4] = "end dispatch"
    BY DEF Proper
  <2> QED BY ONLY <2>1, Zenon DEF MayFollow
<1>5. Posted(c, "end dispatch")
  BY <1>0, <1>1, <1>3, <1>4, Posting DEF PostKinds
<1>6. Told(c)'
  <2>1. "end dispatch" \in LastPosts(c)' /\ Shown(c) = 3 /\ Shown(c)' = 4
    BY <1>1, <1>2 DEF Shown, LastPosts
  <2>2. Advances(c, "end dispatch")
    BY <2>1, Advancing
  <2> QED BY <1>0, <1>1, <1>5, <2>2, Spoken DEF Posted
<1>7. Types'
  BY <1>0, <1>1, <1>5 DEF Types, Posted
<1>8. OneCall(c)'
  BY <1>0, <1>1, <1>2 DEF OneCall
<1>9. Others(c)
  BY <1>0, <1>1, <1>5 DEF Others, Types, Posted
<1> QED BY <1>1, <1>6, <1>7, <1>8, <1>9 DEF Stepped

LEMMA DispatchEnding ==
    ASSUME CallInv, NEW c \in Calls, DispatchEndTaken(c)
    PROVE  Stepped(c)
<1>0. Types /\ OneCall(c) /\ Told(c)
  BY DEF CallInv
<1>1. /\ ending[c] = "dispatch" /\ ending' = [ending EXCEPT ![c] = "none"]
      /\ completed' = completed \cup {c} /\ reserved' = reserved \ {c}
      /\ dispatched' = dispatched \ {c}
      /\ call' = [call EXCEPT ![c] = IF @ = "after" THEN "done" ELSE @]
      /\ errorHandler' = [errorHandler EXCEPT ![c] = IF @ = "ending" THEN "handled" ELSE @]
      /\ UNCHANGED <<gateOpen, start, posts, faults>>
  BY DEF DispatchEndTaken
<1>2. /\ c \in reserved /\ c \notin completed /\ ending'[c] = "none" /\ start[c] = "none"
      /\ call[c] \in {"after", "failed"}
  BY <1>0, <1>1 DEF OneCall, Types
<1>3. Types'
  BY <1>0, <1>1 DEF Types
<1>4. OneCall(c)'
  BY <1>0, <1>1, <1>2 DEF OneCall, Types
<1>5. Told(c)'
  <2>1. LastPosts(c) = LastPosts(c)' /\ Shown(c) = Shown(c)' /\ posts'[c] = posts[c]
    BY <1>1, <1>2 DEF Shown, LastPosts
  <2> QED BY <1>0, <1>1, <2>1, Silent
<1>6. Others(c)
  BY <1>0, <1>1 DEF Others, Types
<1> QED BY <1>1, <1>3, <1>4, <1>5, <1>6 DEF Stepped

LEMMA EndRejecting ==
    ASSUME CallInv, NEW c \in Calls, EndRejected(c)
    PROVE  Stepped(c)
<1>0. Types /\ OneCall(c) /\ Told(c) /\ MaxFaults \in Nat
  BY PluginAssumption DEF CallInv
<1>1. /\ ending[c] # "none" /\ faults < MaxFaults /\ faults' = faults + 1
      /\ ending' = [ending EXCEPT ![c] = "none"]
      /\ call' = [call EXCEPT ![c] = IF @ = "after" THEN "erring" ELSE @]
      /\ errorHandler' = [errorHandler EXCEPT ![c] = IF @ = "ending" THEN "thrown" ELSE @]
      /\ UNCHANGED <<gateOpen, start, dispatched, reserved, completed, posts>>
  BY DEF EndRejected
<1>2. faults' # 0 /\ faults' \in 0..MaxFaults
  BY <1>0, <1>1 DEF Types
<1>3. /\ c \in reserved /\ c \notin completed /\ ending'[c] = "none" /\ start[c] = "none"
      /\ call[c] \in {"after", "failed"} /\ ending[c] \in {"tool", "dispatch"}
  BY <1>0, <1>1 DEF OneCall, Types
<1>4. Types'
  BY <1>0, <1>1, <1>2 DEF Types
<1>5. OneCall(c)'
  BY <1>0, <1>1, <1>3 DEF OneCall, Types
<1>6. Told(c)'
  <2>1. LastPosts(c) \subseteq {"start tool", "end tool", "end dispatch"} /\ Shown(c) \in {3, 4}
    BY <1>3 DEF Shown, LastPosts
  <2>2. LastPosts(c)' = {"start tool", "end tool", "end dispatch"}
    BY <1>1, <1>3 DEF LastPosts
  <2>3. LastPosts(c) \subseteq LastPosts(c)' /\ posts'[c] = posts[c]
    BY ONLY <1>1, <2>1, <2>2
  <2>4. Shown(c) # 0
    <3>1. \A n \in {3, 4} : n # 0
      OBVIOUS
    <3> QED BY ONLY <2>1, <3>1, Zenon
  <2> QED BY <1>0, <1>2, <2>3, <2>4, Silent
<1>7. Others(c)
  BY <1>0, <1>1 DEF Others, Types
<1> QED BY <1>2, <1>4, <1>5, <1>6, <1>7 DEF Stepped

(* A step that leaves the tables and posts of a call alone. *)
LEMMA CallMoves ==
    ASSUME CallInv, NEW c \in Calls, NEW state \in {"running", "erring"},
           call' = [call EXCEPT ![c] = state], call[c] \in {"issued", "running"},
           UNCHANGED <<gateOpen, errorHandler, start, dispatched, reserved, ending, completed,
                       posts, faults>>
    PROVE  Stepped(c)
<1>0. Types /\ OneCall(c) /\ Told(c)
  BY DEF CallInv
<1>1. Types'
  BY <1>0 DEF Types
<1>2. call'[c] = state /\ ending[c] = "none" /\ c \notin completed /\ errorHandler[c] = "none"
  BY <1>0 DEF OneCall, Types
<1>3. OneCall(c)'
  BY <1>0, <1>2 DEF OneCall
<1>4. Told(c)'
  BY <1>0 DEF Told, InOrder, Last, Shown, LastPosts
<1>5. Others(c)
  BY <1>0 DEF Others, Types
<1> QED BY <1>1, <1>3, <1>4, <1>5 DEF Stepped

(* startTool, called by the hook or by the handler of an event. *)
LEMMA StartCalled ==
    ASSUME CallInv, NEW c \in Calls, StartTool(c), call[c] \in {"issued", "before", "running"},
           NEW state \in {"issued", "before", "running"},
           call' = [call EXCEPT ![c] = state],
           UNCHANGED <<gateOpen, errorHandler, dispatched, reserved, ending, completed, faults>>
    PROVE  Stepped(c)
<1>0. Types /\ OneCall(c) /\ Told(c)
  BY DEF CallInv
<1>1. c \notin completed /\ call'[c] = state /\ ending[c] = "none" /\ errorHandler[c] = "none"
  BY <1>0 DEF OneCall, Types
<1>2. Started(c)
  BY <1>0, <1>1, Starting
<1>3. Types'
  BY <1>0, <1>2 DEF Types, Started
<1>4. OneCall(c)'
  BY <1>0, <1>1, <1>2 DEF OneCall, Started
<1>5. Others(c)
  BY <1>0, <1>2 DEF Others, Types, Started
<1> QED BY <1>2, <1>3, <1>4, <1>5 DEF Stepped, Started

LEMMA HookSteps ==
    ASSUME CallInv, NEW c \in Calls,
           Before(c) \/ RunsUnhooked(c) \/ RunningEvent(c) \/ NativeFails(c)
    PROVE  Stepped(c)
<1>0. Types
  BY DEF CallInv
<1>1. CASE Before(c)
  <2>1. /\ StartTool(c) /\ call[c] = "issued"
        /\ call' = [call EXCEPT ![c] = IF c \in reserved THEN "running" ELSE "before"]
        /\ UNCHANGED <<gateOpen, errorHandler, dispatched, reserved, ending, completed, faults>>
    BY <1>1 DEF Before
  <2>2. (IF c \in reserved THEN "running" ELSE "before") \in {"issued", "before", "running"}
    OBVIOUS
  <2> QED BY ONLY CallInv, c \in Calls, <2>1, <2>2, StartCalled
<1>2. CASE RunsUnhooked(c)
  BY <1>2, CallMoves DEF RunsUnhooked
<1>3. CASE RunningEvent(c)
  <2>1. /\ StartTool(c) /\ call[c] \in {"issued", "before", "running"} /\ call' = call
        /\ UNCHANGED <<gateOpen, errorHandler, dispatched, reserved, ending, completed, faults>>
    BY <1>3 DEF RunningEvent
  <2>2. call' = [call EXCEPT ![c] = call[c]]
    BY <1>0, <2>1 DEF Types
  <2> QED BY ONLY CallInv, c \in Calls, <2>1, <2>2, StartCalled
<1>4. CASE NativeFails(c)
  BY <1>4, CallMoves DEF NativeFails
<1> QED BY <1>1, <1>2, <1>3, <1>4

LEMMA NativeEnding ==
    ASSUME CallInv, NEW c \in Calls, NativeEnds(c)
    PROVE  Stepped(c)
<1>0. Types /\ OneCall(c) /\ Told(c)
  BY DEF CallInv
<1>1. /\ call[c] = "running"
      /\ UNCHANGED <<gateOpen, errorHandler, start, dispatched, reserved, completed, faults>>
  BY DEF NativeEnds
<1>2. CASE c \notin reserved
  BY <1>1, <1>2, CallMoves DEF NativeEnds
<1>3. CASE c \in reserved
  <2>1. call' = [call EXCEPT ![c] = "after"] /\ Finish(c)
    BY <1>3 DEF NativeEnds
  <2>2. /\ ending[c] = "none" /\ errorHandler[c] = "none" /\ c \notin completed
        /\ call'[c] = "after"
    BY <1>0, <1>1, <1>3, <2>1 DEF OneCall, Types
  <2>3. Finishing(c)
    BY <1>0, <1>1, <1>3, <2>1, <2>2, Ending
  <2>4. Types'
    BY <1>0, <1>1, <2>1, <2>3 DEF Types, Finishing
  <2>5. OneCall(c)'
    BY <1>0, <1>1, <1>3, <2>1, <2>2, <2>3 DEF OneCall, Finishing
  <2>6. Others(c)
    BY <1>0, <1>1, <2>1, <2>3 DEF Others, Types, Finishing
  <2> QED BY <1>1, <2>3, <2>4, <2>5, <2>6 DEF Stepped, Finishing
<1> QED BY <1>2, <1>3

LEMMA ErrorTelling ==
    ASSUME CallInv, NEW c \in Calls, ErrorEvent(c)
    PROVE  Stepped(c)
<1>0. Types /\ OneCall(c) /\ Told(c)
  BY DEF CallInv
<1>1. /\ call[c] = "erring" /\ call' = [call EXCEPT ![c] = "failed"]
      /\ UNCHANGED <<gateOpen, dispatched, reserved, completed, faults>>
  BY DEF ErrorEvent
<1>2. /\ ending[c] = "none" /\ errorHandler[c] = "none" /\ c \notin completed
      /\ call'[c] = "failed"
  BY <1>0, <1>1 DEF OneCall, Types
<1>3. CASE c \in reserved
  <2>1. /\ errorHandler' = [errorHandler EXCEPT ![c] = "ending"] /\ Finish(c)
        /\ UNCHANGED start
    BY <1>3 DEF ErrorEvent
  <2>2. Finishing(c)
    BY <1>0, <1>1, <1>2, <1>3, <2>1, Ending
  <2>3. Types'
    BY <1>0, <1>1, <2>1, <2>2 DEF Types, Finishing
  <2>4. OneCall(c)'
    BY <1>0, <1>1, <1>2, <1>3, <2>1, <2>2 DEF OneCall, Finishing
  <2>5. Others(c)
    BY <1>0, <1>1, <2>1, <2>2 DEF Others, Types, Finishing
  <2> QED BY <1>1, <2>2, <2>3, <2>4, <2>5 DEF Stepped, Finishing
<1>4. CASE c \notin reserved
  <2>1. /\ errorHandler' = [errorHandler EXCEPT ![c] = "starting"] /\ StartTool(c)
        /\ UNCHANGED ending
    BY <1>4 DEF ErrorEvent
  <2>2. Started(c)
    BY <1>0, <1>1, <1>2, <2>1, Starting
  <2>3. Types'
    BY <1>0, <1>1, <2>1, <2>2 DEF Types, Started
  <2>4. OneCall(c)'
    BY <1>0, <1>1, <1>2, <1>4, <2>1, <2>2 DEF OneCall, Started
  <2>5. Others(c)
    BY <1>0, <1>1, <2>1, <2>2 DEF Others, Types, Started
  <2> QED BY <1>1, <2>2, <2>3, <2>4, <2>5 DEF Stepped, Started
<1> QED BY <1>3, <1>4

LEMMA CallsRest ==
    ASSUME CallInv, UNCHANGED <<gateOpen, call, errorHandler, start, dispatched, reserved, ending,
                                completed, posts, faults>>
    PROVE  CallInv'
<1>1. Types /\ \A c \in Calls : OneCall(c) /\ Told(c)
  BY DEF CallInv
<1>2. Types'
  BY <1>1 DEF Types
<1>3. ASSUME NEW c \in Calls PROVE OneCall(c)' /\ Told(c)'
  BY <1>1 DEF OneCall, Told, InOrder, Last, Shown, LastPosts
<1> QED BY <1>2, <1>3 DEF CallInv

LEMMA TaskFinding ==
    ASSUME CallInv, NEW s \in Children, TaskFound(s)
    PROVE  \E c \in TaskCalls : /\ Stepped(c) /\ StartTool(c)
                                /\ SessionOf[c] = ParentSession(s) /\ Live(c)
                                /\ call[c] \in {"issued", "before", "running"}
                                /\ binding' = [binding EXCEPT ![s] =
                                                  IF c \in reserved THEN "handled" ELSE c]
<1>1. PICK c \in TaskCalls :
         /\ SessionOf[c] = ParentSession(s) /\ Live(c)
         /\ call[c] \in {"issued", "before", "running"}
         /\ binding' = [binding EXCEPT ![s] = IF c \in reserved THEN "handled" ELSE c]
         /\ StartTool(c)
         /\ UNCHANGED <<gateOpen, call, errorHandler, dispatched, reserved, ending, completed, faults>>
  BY DEF TaskFound
<1>2. c \in Calls
  BY PluginAssumption
<1>3. call' = [call EXCEPT ![c] = call[c]]
  BY <1>1, <1>2 DEF CallInv, Types
<1>4. Stepped(c)
  BY ONLY CallInv, <1>1, <1>2, <1>3, StartCalled
<1> QED BY <1>1, <1>4

CallAction(c) ==
    \/ DispatchGranted(c) \/ ToolGranted(c) \/ StartRejected(c)
    \/ ToolEndTaken(c) \/ DispatchEndTaken(c) \/ EndRejected(c)
    \/ Before(c) \/ RunsUnhooked(c) \/ RunningEvent(c)
    \/ NativeEnds(c) \/ NativeFails(c) \/ ErrorEvent(c)

LEMMA CallActions ==
    ASSUME CallInv, NEW c \in Calls, CallAction(c)
    PROVE  Stepped(c)
BY DispatchGranting, ToolGranting, StartRejecting, ToolEnding, DispatchEnding, EndRejecting,
   HookSteps, NativeEnding, ErrorTelling DEF CallAction

LEMMA CallsKept ==
    ASSUME CallInv, [Next]_vars
    PROVE  CallInv'
<1>1. CASE OpenGate
  BY <1>1, GateOpens
<1>2. CASE \E c \in Calls : CallAction(c)
  BY <1>2, CallActions, OneCallSteps
<1>3. CASE \E s \in Children : TaskFound(s)
  BY <1>3, TaskFinding, OneCallSteps, PluginAssumption
<1>4. CASE \E s \in Children : SessionCreated(s) \/ TaskNotFound(s) \/ ChildRequest(s)
  BY <1>4, CallsRest DEF SessionCreated, TaskNotFound, ChildRequest
<1>5. CASE UNCHANGED vars
  BY <1>5, CallsRest DEF vars
<1> QED BY <1>1, <1>2, <1>3, <1>4, <1>5 DEF Next, CallAction

LEMMA CallsBegin == Init => CallInv
<1> SUFFICES ASSUME Init PROVE CallInv
  OBVIOUS
<1>1. /\ gateOpen = FALSE /\ call = [c \in Calls |-> "issued"]
      /\ errorHandler = [c \in Calls |-> "none"] /\ start = [c \in Calls |-> "none"]
      /\ dispatched = {} /\ reserved = {} /\ completed = {}
      /\ ending = [c \in Calls |-> "none"] /\ posts = [c \in Calls |-> <<>>] /\ faults = 0
  BY DEF Init
<1>2. Types
  <2>1. gateOpen \in BOOLEAN
    BY ONLY <1>1
  <2>2. /\ call \in [Calls -> {"issued", "before", "running", "after", "erring", "done", "failed"}]
        /\ errorHandler \in [Calls -> {"none", "starting", "ending", "handled", "thrown"}]
        /\ start \in [Calls -> {"none", "gate", "dispatch", "tool"}]
        /\ ending \in [Calls -> {"none", "tool", "dispatch"}]
    BY ONLY <1>1
  <2>3. dispatched \in SUBSET Calls /\ completed \in SUBSET Calls /\ reserved \in SUBSET Calls
    BY ONLY <1>1
  <2>4. posts = [c \in Calls |-> posts[c]]
    BY ONLY <1>1
  <2>5. faults \in 0..MaxFaults
    BY ONLY <1>1, PluginAssumption
  <2> QED BY ONLY <2>1, <2>2, <2>3, <2>4, <2>5 DEF Types
<1>3. ASSUME NEW c \in Calls PROVE OneCall(c) /\ Told(c)
  <2>1. OneCall(c)
    BY <1>1 DEF OneCall
  <2>2. posts[c] = <<>> /\ Shown(c) = 0
    BY <1>1 DEF Shown
  <2>3. InOrder(posts[c]) /\ Len(posts[c]) = 0
    BY <2>2, EmptySeq DEF InOrder
  <2>4. Told(c)
    <3>1. \A i \in 1..0 : posts[c][i] = Proper[i]
      OBVIOUS
    <3> QED BY <2>2, <2>3, <3>1 DEF Told
  <2> QED BY <2>1, <2>4
<1> QED BY <1>2, <1>3 DEF CallInv

-----------------------------------------------------------------------------
(* Tasks and their child sessions                                          *)
(*                                                                         *)
(* A call that hooks or events have told of, and one the parent session    *)
(* has seen the end of; a task in its session's queue of active tasks.     *)
Begun(c) == call[c] # "issued" \/ start[c] # "none" \/ c \in reserved \/ c \in completed
Over(c) == call[c] \in {"after", "erring", "done", "failed"}
Queued(c) == \E i \in 1..Len(activeTasks[SessionOf[c]]) : activeTasks[SessionOf[c]][i] = c

LiveInv == \A c \in Calls : Begun(c) => Live(c)

(* The queues hold tasks of their session, each once, from its grant on.   *)
QueueInv ==
    /\ activeTasks \in [Sessions -> Seq(TaskCalls)]
    /\ \A p \in Sessions : IsInjective(activeTasks[p])
    /\ \A p \in Sessions : \A i \in 1..Len(activeTasks[p]) :
          /\ SessionOf[activeTasks[p][i]] = p
          /\ activeTasks[p][i] \in reserved \/ activeTasks[p][i] \in completed

ChildTypes ==
    /\ binding \in [Children -> {"none", "asking", "handled"} \cup TaskCalls]
    /\ parentOf \in [Children -> Calls \cup {NoCall}]
    /\ headers \in [Children -> Calls \cup {NoCall, "unsent"}]

(* A handler of session.created asks and joins only tasks of its session.  *)
AskInv ==
    \A s \in Children :
        /\ binding[s] # "none" => Live(TaskOf[s])
        /\ binding[s] \in TaskCalls => SessionOf[binding[s]] = ParentSession(s)

SessionInv == LiveInv /\ QueueInv /\ ChildTypes /\ AskInv

(* Where a task that gets its child is in its turn, the queue holds it     *)
(* from its grant to the creation of its child, and then no more.          *)
Bound(s) ==
    LET c == TaskOf[s]
    IN  /\ binding[s] \in {"none", "handled"}
        /\ binding[s] = "none" => ~Over(c) /\ (c \in reserved => Queued(c))
        /\ binding[s] = "handled" => /\ parentOf[s] = c /\ ~Queued(c)
                                     /\ c \in reserved \/ c \in completed
        /\ headers[s] \in {"unsent", c}
        /\ call[c] = "running" => c \in reserved

Good(c) == InTurn(SessionOf[c]) /\ \A d \in UpTo(c) : Regular(d)
BoundUpTo(c) == faults = 0 => \A s \in Children : TaskOf[s] \in UpTo(c) => Bound(s)

ChildInv == \A c \in TaskCalls : Good(c) => BoundUpTo(c)

-----------------------------------------------------------------------------
(* What a step may do to a call *)


Moves(c) ==
    /\ Ended(c) => Ended(c)'
    /\ Begun(c)' => Begun(c) \/ Live(c)
    /\ c \in reserved \/ c \in completed => c \in reserved' \/ c \in completed'
    /\ call'[c] = "running" => \/ c \in Bypass \/ c \in reserved'
                               \/ call[c] = "running" /\ c \notin reserved
    /\ Over(c)' => \/ Over(c) \/ faults' # 0 \/ c \in Childless
                   \/ \A s \in Children : TaskOf[s] = c => binding[s] # "none"

LEMMA Unmoved ==
    ASSUME NEW c, call'[c] = call[c], start'[c] = start[c], c \in reserved' <=> c \in reserved,
           c \in completed' <=> c \in completed
    PROVE  Moves(c)
BY DEF Moves, Ended, Begun, Over

LEMMA PostMoves ==
    ASSUME CallInv, NEW c \in Calls,
           DispatchGranted(c) \/ ToolGranted(c) \/ StartRejected(c)
               \/ ToolEndTaken(c) \/ DispatchEndTaken(c) \/ EndRejected(c)
    PROVE  Moves(c)
<1>0. Types /\ OneCall(c)
  BY DEF CallInv
<1>1. CASE DispatchGranted(c)
  BY <1>0, <1>1 DEF DispatchGranted, Types, Moves, Ended, Begun, Over
<1>2. CASE ToolGranted(c)
  BY <1>0, <1>2 DEF ToolGranted, Types, Moves, Ended, Begun, Over
<1>3. CASE StartRejected(c)
  BY <1>0, <1>3 DEF StartRejected, Types, Moves, Ended, Begun, Over
<1>4. CASE ToolEndTaken(c)
  BY <1>0, <1>4 DEF ToolEndTaken, Types, Moves, Ended, Begun, Over
<1>5. CASE DispatchEndTaken(c)
  BY <1>0, <1>5 DEF DispatchEndTaken, Types, OneCall, Moves, Ended, Begun, Over
<1>6. CASE EndRejected(c)
  BY <1>0, <1>6 DEF EndRejected, Types, OneCall, Moves, Ended, Begun, Over
<1> QED BY <1>1, <1>2, <1>3, <1>4, <1>5, <1>6

LEMMA HookMoves ==
    ASSUME CallInv, NEW c \in Calls,
           Before(c) \/ RunsUnhooked(c) \/ RunningEvent(c)
               \/ NativeEnds(c) \/ NativeFails(c) \/ ErrorEvent(c)
    PROVE  Moves(c)
<1>0. Types /\ OneCall(c)
  BY DEF CallInv
<1>1. CASE Before(c)
  BY <1>0, <1>1 DEF Before, StartTool, Types, Moves, Ended, Begun, Over
<1>2. CASE RunsUnhooked(c)
  BY <1>0, <1>2 DEF RunsUnhooked, Types, Moves, Ended, Begun, Over
<1>3. CASE RunningEvent(c)
  BY <1>0, <1>3 DEF RunningEvent, StartTool, Types, Moves, Ended, Begun, Over
<1>4. CASE NativeEnds(c)
  BY <1>0, <1>4 DEF NativeEnds, Finish, Types, Moves, Ended, Begun, Over
<1>5. CASE NativeFails(c)
  BY <1>0, <1>5 DEF NativeFails, Types, Moves, Ended, Begun, Over
<1>6. CASE ErrorEvent(c)
  BY <1>0, <1>6 DEF ErrorEvent, StartTool, Finish, Types, Moves, Ended, Begun, Over
<1> QED BY <1>1, <1>2, <1>3, <1>4, <1>5, <1>6

LEMMA FoundMoves ==
    ASSUME CallInv, NEW s \in Children, TaskFound(s), NEW d \in Calls
    PROVE  Moves(d)
<1>1. PICK c \in TaskCalls :
        /\ Live(c) /\ call[c] \in {"issued", "before", "running"}
        /\ StartTool(c) /\ UNCHANGED <<call, reserved, completed>>
  BY DEF TaskFound
<1>2. Types /\ c \in Calls
  BY PluginAssumption DEF CallInv
<1>3. start' = start \/ start' = [start EXCEPT ![c] = start'[c]]
  BY <1>1, <1>2 DEF StartTool, Types
<1>4. CASE d = c
  BY <1>1, <1>2, <1>4 DEF Moves, Ended, Begun, Over
<1>5. CASE d # c
  BY <1>1, <1>2, <1>3, <1>5, Unmoved DEF Types
<1> QED BY <1>4, <1>5

LEMMA CallsMove ==
    ASSUME CallInv, [Next]_vars, NEW d \in Calls
    PROVE  Moves(d)
<1>1. CASE OpenGate
  <2>1. /\ start'[d] = IF start[d] = "gate" THEN "dispatch" ELSE start[d]
        /\ UNCHANGED <<call, reserved, completed>>
    BY <1>1 DEF OpenGate
  <2> QED BY <2>1 DEF Moves, Ended, Begun, Over
<1>2. CASE \E c \in Calls : CallAction(c)
  <2>1. PICK c \in Calls : CallAction(c)
    BY <1>2
  <2>2. CASE d = c
    BY <2>1, <2>2, PostMoves, HookMoves DEF CallAction
  <2>3. CASE d # c
    <3>1. Others(c)
      BY <2>1, CallActions DEF Stepped
    <3> QED BY <2>3, <3>1, Unmoved DEF Others
  <2> QED BY <2>2, <2>3
<1>3. CASE \E s \in Children : TaskFound(s)
  BY <1>3, FoundMoves
<1>4. CASE \E s \in Children : SessionCreated(s) \/ TaskNotFound(s) \/ ChildRequest(s)
  BY <1>4, Unmoved DEF SessionCreated, TaskNotFound, ChildRequest
<1>5. CASE UNCHANGED vars
  BY <1>5, Unmoved DEF vars
<1> QED BY <1>1, <1>2, <1>3, <1>4, <1>5 DEF Next, CallAction

(* A call is told of only after those it waits for have ended.             *)
LEMMA LiveStays ==
    ASSUME CallInv, [Next]_vars, NEW c \in Calls, Live(c)
    PROVE  Live(c)'
<1>1. ASSUME NEW d \in After[c] PROVE Ended(d)'
  <2>1. d \in Calls /\ Ended(d)
    BY PluginAssumption DEF Live
  <2> QED BY <2>1, CallsMove DEF Moves
<1> QED BY <1>1 DEF Live

LEMMA LiveKept ==
    ASSUME CallInv, LiveInv, [Next]_vars
    PROVE  LiveInv'
<1>1. ASSUME NEW c \in Calls, Begun(c)' PROVE Live(c)'
  <2>1. Begun(c) \/ Live(c)
    BY <1>1, CallsMove DEF Moves
  <2> QED BY <2>1, LiveStays DEF LiveInv
<1> QED BY <1>1 DEF LiveInv

-----------------------------------------------------------------------------
(* What a step may do to the child sessions *)

Leaves ==
    /\ UNCHANGED <<activeTasks, parentOf, headers>>
    /\ reserved' \subseteq reserved
    /\ binding' = [s \in Children |-> binding'[s]]
    /\ \A s \in Children :
          \/ binding'[s] = binding[s]
          \/ /\ binding[s] \notin {"none", "handled"}
             /\ \/ binding'[s] = "handled"
                \/ binding'[s] \in TaskCalls /\ SessionOf[binding'[s]] = ParentSession(s)

LEMMA LeavesBindings ==
    ASSUME ChildTypes, UNCHANGED <<activeTasks, binding, parentOf, headers>>,
           reserved' \subseteq reserved
    PROVE  Leaves
BY DEF Leaves, ChildTypes

LEMMA CallLeaves ==
    ASSUME ChildTypes, NEW c \in Calls, CallAction(c), ~ToolGranted(c)
    PROVE  Leaves
<1>1. CASE StartRejected(c)
  <2>1. /\ binding' = [k \in Children |-> IF binding[k] = c THEN "handled" ELSE binding[k]]
        /\ UNCHANGED <<activeTasks, parentOf, headers, reserved>>
    BY <1>1 DEF StartRejected
  <2>2. c \notin {"none", "handled"}
    BY PluginAssumption
  <2> QED BY <2>1, <2>2 DEF Leaves
<1>2. CASE ~StartRejected(c)
  <2>1. UNCHANGED <<activeTasks, binding, parentOf, headers>> /\ reserved' \subseteq reserved
    BY <1>2 DEF CallAction, DispatchGranted, ToolEndTaken, DispatchEndTaken, EndRejected, Before,
                RunsUnhooked, RunningEvent, NativeEnds, NativeFails, ErrorEvent
  <2> QED BY <2>1, LeavesBindings
<1> QED BY <1>1, <1>2

LEMMA ChildSteps ==
    ASSUME ChildTypes, [Next]_vars
    PROVE  \/ Leaves
           \/ \E c \in Calls : ToolGranted(c)
           \/ \E s \in Children : SessionCreated(s) \/ ChildRequest(s)
<1>1. CASE OpenGate
  BY <1>1, LeavesBindings DEF OpenGate
<1>2. CASE \E c \in Calls : CallAction(c)
  BY <1>2, CallLeaves
<1>3. CASE \E s \in Children : TaskFound(s)
  <2>1. PICK s \in Children, c \in TaskCalls :
          /\ binding[s] = "asking" /\ SessionOf[c] = ParentSession(s)
          /\ binding' = [binding EXCEPT ![s] = IF c \in reserved THEN "handled" ELSE c]
          /\ UNCHANGED <<activeTasks, parentOf, headers, reserved>>
    BY <1>3 DEF TaskFound
  <2> QED BY <2>1 DEF Leaves, ChildTypes
<1>4. CASE \E s \in Children : TaskNotFound(s)
  <2>1. PICK s \in Children :
          /\ binding[s] = "asking" /\ binding' = [binding EXCEPT ![s] = "handled"]
          /\ UNCHANGED <<activeTasks, parentOf, headers, reserved>>
    BY <1>4 DEF TaskNotFound
  <2> QED BY <2>1 DEF Leaves, ChildTypes
<1>5. CASE UNCHANGED vars
  BY <1>5, LeavesBindings DEF vars
<1> QED BY <1>1, <1>2, <1>3, <1>4, <1>5 DEF Next, CallAction

-----------------------------------------------------------------------------
(* The queues of active tasks *)

LEMMA Appending ==
    ASSUME NEW S, NEW s \in Seq(S), NEW x \in S
    PROVE  /\ Append(s, x) \in Seq(S) /\ Len(s) \in Nat /\ Len(Append(s, x)) = Len(s) + 1
           /\ \A i \in 1..Len(s) : Append(s, x)[i] = s[i]
           /\ Append(s, x)[Len(s) + 1] = x
           /\ DOMAIN s = 1..Len(s) /\ DOMAIN Append(s, x) = 1..Len(s) + 1
<1>1. Append(s, x) \in Seq(S) /\ Len(Append(s, x)) = Len(s) + 1
  BY AppendProperties
<1> QED BY <1>1, AppendProperties, LenProperties

LEMMA Tailing ==
    ASSUME NEW S, NEW s \in Seq(S), s # <<>>
    PROVE  /\ Tail(s) \in Seq(S) /\ Len(s) \in Nat \ {0} /\ Len(Tail(s)) = Len(s) - 1
           /\ \A i \in 1..Len(s) - 1 : Tail(s)[i] = s[i + 1]
           /\ Head(s) = s[1]
           /\ DOMAIN s = 1..Len(s) /\ DOMAIN Tail(s) = 1..Len(s) - 1
<1>1. Tail(s) \in Seq(S) /\ Len(Tail(s)) = Len(s) - 1 /\ \A i \in 1..Len(s) - 1 : Tail(s)[i] = s[i + 1]
  BY HeadTailProperties
<1>2. Len(s) \in Nat \ {0} /\ DOMAIN s = 1..Len(s) /\ DOMAIN Tail(s) = 1..Len(Tail(s))
  BY <1>1, EmptySeq, LenProperties
<1>3. Head(s) = s[1]
  OBVIOUS
<1> QED BY <1>1, <1>2, <1>3

LEMMA QueuesStay ==
    ASSUME CallInv, QueueInv, [Next]_vars, activeTasks' = activeTasks
    PROVE  QueueInv'
<1>1. ASSUME NEW p \in Sessions, NEW i \in 1..Len(activeTasks[p])
      PROVE  activeTasks[p][i] \in reserved' \/ activeTasks[p][i] \in completed'
  <2>1. activeTasks[p][i] \in TaskCalls
    BY ElementOfSeq DEF QueueInv
  <2>2. activeTasks[p][i] \in reserved \/ activeTasks[p][i] \in completed
    BY DEF QueueInv
  <2> QED BY <2>1, <2>2, CallsMove, PluginAssumption DEF Moves
<1> QED BY <1>1 DEF QueueInv, IsInjective

(* One queue changes, and holds every task once, of its session and begun. *)
LEMMA QueueChanges ==
    ASSUME CallInv, QueueInv, [Next]_vars, NEW p \in Sessions, NEW q \in Seq(TaskCalls),
           activeTasks' = [activeTasks EXCEPT ![p] = q], IsInjective(q),
           \A i \in 1..Len(q) : SessionOf[q[i]] = p /\ (q[i] \in reserved' \/ q[i] \in completed')
    PROVE  QueueInv'
<1>1. activeTasks' \in [Sessions -> Seq(TaskCalls)] /\ activeTasks'[p] = q
      /\ \A r \in Sessions \ {p} : activeTasks'[r] = activeTasks[r]
  BY DEF QueueInv
<1>2. ASSUME NEW r \in Sessions, NEW i \in 1..Len(activeTasks'[r])
      PROVE  /\ SessionOf[activeTasks'[r][i]] = r
             /\ activeTasks'[r][i] \in reserved' \/ activeTasks'[r][i] \in completed'
  <2>1. CASE r = p
    BY <1>1, <2>1
  <2>2. CASE r # p
    <3>1. activeTasks'[r] = activeTasks[r] /\ activeTasks[r] \in Seq(TaskCalls)
      BY <1>1, <2>2 DEF QueueInv
    <3>2. activeTasks[r][i] \in TaskCalls
      BY <3>1, ElementOfSeq
    <3>3. /\ SessionOf[activeTasks[r][i]] = r
          /\ activeTasks[r][i] \in reserved \/ activeTasks[r][i] \in completed
      BY <3>1 DEF QueueInv
    <3>4. activeTasks[r][i] \in reserved' \/ activeTasks[r][i] \in completed'
      BY <3>2, <3>3, CallsMove, PluginAssumption DEF Moves
    <3> QED BY <3>1, <3>3, <3>4
  <2> QED BY <2>1, <2>2
<1>3. ASSUME NEW r \in Sessions PROVE IsInjective(activeTasks'[r])
  BY <1>1 DEF QueueInv
<1>4. \A r \in Sessions : IsInjective(activeTasks[r])'
  BY <1>3 DEF IsInjective
<1> QED BY <1>1, <1>2, <1>4 DEF QueueInv

LEMMA QueueGrows ==
    ASSUME CallInv, QueueInv, [Next]_vars, NEW c \in Calls, ToolGranted(c)
    PROVE  QueueInv'
<1> DEFINE p == SessionOf[c]
           old == activeTasks[p]
           q == Append(old, c)
<1>1. /\ start[c] = "tool" /\ reserved' = reserved \cup {c} /\ completed' = completed
      /\ \/ activeTasks' = activeTasks
         \/ c \in TaskCalls /\ activeTasks' = [activeTasks EXCEPT ![p] = q]
  BY DEF ToolGranted
<1>2. c \notin reserved /\ c \notin completed /\ p \in Sessions
  BY <1>1, PluginAssumption DEF CallInv, OneCall, Sessions, Range
<1>3. CASE c \in TaskCalls /\ activeTasks' = [activeTasks EXCEPT ![p] = q]
  <2>1. old \in Seq(TaskCalls)
    BY <1>2 DEF QueueInv
  <2>2. /\ q \in Seq(TaskCalls) /\ Len(old) \in Nat /\ Len(q) = Len(old) + 1
        /\ \A i \in 1..Len(old) : q[i] = old[i]
        /\ q[Len(old) + 1] = c
        /\ DOMAIN old = 1..Len(old) /\ DOMAIN q = 1..Len(old) + 1
    BY <1>3, <2>1, Appending
  <2>3. \A i \in 1..Len(old) : SessionOf[old[i]] = p /\ (old[i] \in reserved \/ old[i] \in completed)
    BY <1>2 DEF QueueInv
  <2>4. \A i, j \in 1..Len(old) : old[i] = old[j] => i = j
    BY <1>2, <2>2 DEF QueueInv, IsInjective
  <2> HIDE DEF q, old
  <2>5. \A i \in 1..Len(old) + 1 : i \in 1..Len(old) \/ i = Len(old) + 1
    BY <2>2
  <2>6. IsInjective(q)
    <3>1. \A i, j \in 1..Len(old) + 1 : q[i] = q[j] => i = j
      BY <1>2, <2>2, <2>3, <2>4, <2>5
    <3> QED BY ONLY <2>2, <3>1 DEF IsInjective
  <2>7. \A i \in 1..Len(q) : SessionOf[q[i]] = p /\ (q[i] \in reserved' \/ q[i] \in completed')
    BY <1>1, <2>2, <2>3, <2>5
  <2> QED BY <1>2, <1>3, <2>2, <2>6, <2>7, QueueChanges
<1> QED BY <1>1, <1>3, QueuesStay

(* The queue that gives its head to a child. *)
LEMMA QueueShrinks ==
    ASSUME CallInv, QueueInv, [Next]_vars, NEW s \in Children, SessionCreated(s)
    PROVE  QueueInv'
<1> DEFINE p == ParentSession(s)
           old == activeTasks[p]
           q == Tail(old)
<1>1. /\ UNCHANGED <<reserved, completed>>
      /\ \/ activeTasks' = activeTasks
         \/ old # <<>> /\ activeTasks' = [activeTasks EXCEPT ![p] = q]
  BY DEF SessionCreated
<1>2. p \in Sessions
  BY PluginAssumption DEF ParentSession, Sessions, Range
<1>3. CASE old # <<>> /\ activeTasks' = [activeTasks EXCEPT ![p] = q]
  <2>1. old \in Seq(TaskCalls)
    BY <1>2 DEF QueueInv
  <2>2. /\ q \in Seq(TaskCalls) /\ Len(old) \in Nat \ {0} /\ Len(q) = Len(old) - 1
        /\ \A i \in 1..Len(old) - 1 : q[i] = old[i + 1]
        /\ DOMAIN old = 1..Len(old) /\ DOMAIN q = 1..Len(old) - 1
    BY <1>3, <2>1, Tailing
  <2>3. \A i \in 1..Len(old) : SessionOf[old[i]] = p /\ (old[i] \in reserved \/ old[i] \in completed)
    BY <1>2 DEF QueueInv
  <2>4. \A i, j \in 1..Len(old) : old[i] = old[j] => i = j
    BY <1>2, <2>2 DEF QueueInv, IsInjective
  <2> HIDE DEF q, old
  <2>5. \A i \in 1..Len(old) - 1 : i \in Int /\ i + 1 \in 1..Len(old)
    BY <2>2
  <2>6. IsInjective(q)
    <3>1. \A i, j \in 1..Len(old) - 1 : q[i] = q[j] => i = j
      BY <2>2, <2>4, <2>5
    <3> QED BY ONLY <2>2, <3>1 DEF IsInjective
  <2>7. \A i \in 1..Len(q) : SessionOf[q[i]] = p /\ (q[i] \in reserved' \/ q[i] \in completed')
    BY <1>1, <2>2, <2>3, <2>5
  <2> QED BY <1>2, <1>3, <2>2, <2>6, <2>7, QueueChanges
<1> QED BY <1>1, <1>3, QueuesStay

LEMMA QueuesKept ==
    ASSUME CallInv, QueueInv, ChildTypes, [Next]_vars
    PROVE  QueueInv'
<1>1. CASE Leaves
  BY <1>1, QueuesStay DEF Leaves
<1>2. ASSUME NEW s \in Children, ChildRequest(s) PROVE QueueInv'
  BY <1>2, QueuesStay DEF ChildRequest
<1> QED BY <1>1, <1>2, ChildSteps, QueueGrows, QueueShrinks

-----------------------------------------------------------------------------
(* The handlers of session.created *)

LEMMA ChildTypesKept ==
    ASSUME CallInv, QueueInv, ChildTypes, [Next]_vars
    PROVE  ChildTypes'
<1>1. CASE Leaves
  BY <1>1 DEF Leaves, ChildTypes
<1>2. ASSUME NEW c \in Calls, ToolGranted(c) PROVE ChildTypes'
  <2>1. \E J \in SUBSET Children :
          /\ binding' = [k \in Children |-> IF k \in J THEN "handled" ELSE binding[k]]
          /\ parentOf' = [k \in Children |-> IF k \in J THEN c ELSE parentOf[k]]
          /\ UNCHANGED headers
    BY <1>2 DEF ToolGranted
  <2> QED BY <2>1 DEF ChildTypes
<1>3. ASSUME NEW s \in Children, SessionCreated(s) PROVE ChildTypes'
  <2> DEFINE q == activeTasks[ParentSession(s)]
  <2>1. CASE binding' = [binding EXCEPT ![s] = "asking"] /\ UNCHANGED <<parentOf, headers>>
    BY <2>1 DEF ChildTypes
  <2>2. CASE /\ q # <<>> /\ parentOf' = [parentOf EXCEPT ![s] = Head(q)]
             /\ binding' = [binding EXCEPT ![s] = "handled"] /\ UNCHANGED headers
    <3>1. q \in Seq(TaskCalls)
      BY PluginAssumption DEF QueueInv, ParentSession, Sessions, Range
    <3>2. Head(q) \in Calls
      BY <2>2, <3>1, HeadTailProperties, PluginAssumption
    <3> QED BY <2>2, <3>2 DEF ChildTypes
  <2> QED BY <1>3, <2>1, <2>2 DEF SessionCreated
<1>4. ASSUME NEW s \in Children, ChildRequest(s) PROVE ChildTypes'
  <2>1. headers' = [headers EXCEPT ![s] = parentOf[s]] /\ UNCHANGED <<binding, parentOf>>
    BY <1>4 DEF ChildRequest
  <2> QED BY <2>1 DEF ChildTypes
<1> QED BY <1>1, <1>2, <1>3, <1>4, ChildSteps

LEMMA AsksKept ==
    ASSUME CallInv, SessionInv, [Next]_vars
    PROVE  AskInv'
<1>0. /\ ChildTypes /\ \A s \in Children : binding[s] # "none" => Live(TaskOf[s])
      /\ \A s \in Children : binding[s] \in TaskCalls => SessionOf[binding[s]] = ParentSession(s)
      /\ \A s \in Children : TaskOf[s] \in Calls
  BY PluginAssumption DEF SessionInv, AskInv
<1>1. "handled" \notin TaskCalls /\ "asking" \notin TaskCalls
  BY PluginAssumption
<1>2. SUFFICES ASSUME NEW s \in Children
               PROVE  /\ binding'[s] # "none" => binding[s] # "none" \/ Live(TaskOf[s])
                      /\ binding'[s] \in TaskCalls => SessionOf[binding'[s]] = ParentSession(s)
  <2>1. ASSUME NEW s \in Children, binding'[s] # "none" PROVE Live(TaskOf[s])'
    BY <1>0, <1>2, <2>1, LiveStays
  <2> QED BY <1>2, <2>1 DEF AskInv, ParentSession
<1>3. CASE Leaves
  BY <1>0, <1>1, <1>3 DEF Leaves
<1>4. ASSUME NEW c \in Calls, ToolGranted(c)
      PROVE  \/ binding'[s] = binding[s]
             \/ binding[s] # "none" /\ binding'[s] = "handled"
  <2>1. binding' = [k \in Children |-> IF binding[k] = c THEN "handled" ELSE binding[k]]
    BY <1>4 DEF ToolGranted
  <2> QED BY <2>1, PluginAssumption
<1>5. ASSUME NEW k \in Children, SessionCreated(k)
      PROVE  \/ binding'[s] = binding[s]
             \/ Live(TaskOf[s]) /\ binding'[s] \in {"handled", "asking"}
  <2>1. call[TaskOf[k]] = "running" /\ \E x \in {"handled", "asking"} : binding' = [binding EXCEPT ![k] = x]
    BY <1>5 DEF SessionCreated
  <2>2. Live(TaskOf[k])
    BY <1>0, <2>1 DEF SessionInv, LiveInv, Begun
  <2> QED BY <1>0, <2>1, <2>2 DEF ChildTypes
<1>6. ASSUME NEW k \in Children, ChildRequest(k) PROVE binding'[s] = binding[s]
  BY <1>6 DEF ChildRequest
<1> QED BY <1>0, <1>1, <1>3, <1>4, <1>5, <1>6, ChildSteps

LEMMA SessionsKept ==
    ASSUME CallInv, SessionInv, [Next]_vars
    PROVE  SessionInv'
BY LiveKept, QueuesKept, ChildTypesKept, AsksKept DEF SessionInv

LEMMA SessionsBegin == Init => SessionInv
<1> SUFFICES ASSUME Init PROVE SessionInv
  OBVIOUS
<1>1. LiveInv
  BY DEF Init, LiveInv, Begun
<1>2. QueueInv
  <2>1. activeTasks = [p \in Sessions |-> <<>>]
    BY DEF Init
  <2>2. \A p \in Sessions : activeTasks[p] = <<>> /\ Len(activeTasks[p]) = 0
    BY <2>1, EmptySeq
  <2>3. activeTasks \in [Sessions -> Seq(TaskCalls)]
    BY <2>1, EmptySeq
  <2>4. \A p \in Sessions : DOMAIN activeTasks[p] = {}
    BY <2>2, <2>3, LenProperties
  <2>5. \A p \in Sessions : IsInjective(activeTasks[p])
    BY <2>4 DEF IsInjective
  <2>6. 1..0 = {}
    OBVIOUS
  <2> QED BY ONLY <2>2, <2>3, <2>5, <2>6 DEF QueueInv
<1>3. ChildTypes
  <2>1. binding = [s \in Children |-> "none"] /\ parentOf = [s \in Children |-> NoCall]
        /\ headers = [s \in Children |-> "unsent"]
    BY DEF Init
  <2> QED BY ONLY <2>1 DEF ChildTypes
<1>4. AskInv
  <2>1. \A s \in Children : binding[s] = "none" /\ "none" \notin TaskCalls
    BY PluginAssumption DEF Init
  <2> QED BY <2>1 DEF AskInv
<1> QED BY <1>1, <1>2, <1>3, <1>4 DEF SessionInv

-----------------------------------------------------------------------------
(* Tasks in turn *)

LEMMA UpToTasks ==
    ASSUME NEW c \in TaskCalls
    PROVE  /\ c \in Tasks(SessionOf[c]) /\ c \in UpTo(c)
           /\ \A d \in UpTo(c) : d \in TaskCalls /\ d \in Calls /\ SessionOf[d] = SessionOf[c]
BY PluginAssumption DEF Tasks, UpTo

(* A task behind c in the session is not live before those up to c ended.  *)
LEMMA Settled ==
    ASSUME LiveInv, NEW c \in TaskCalls, Good(c), NEW e \in Tasks(SessionOf[c]), Live(e),
           e \notin UpTo(c), NEW d \in UpTo(c)
    PROVE  Ended(d)
<1>1. c \in After[e]
  BY UpToTasks DEF Good, InTurn, UpTo
<1>2. Ended(c)
  BY <1>1 DEF Live
<1>3. Live(c)
  BY <1>2, PluginAssumption DEF LiveInv, Begun, Ended
<1> QED BY <1>2, <1>3 DEF UpTo, Live

LEMMA Alone ==
    ASSUME LiveInv, NEW c \in TaskCalls, Good(c), NEW d \in UpTo(c), Live(d), ~Ended(d),
           NEW e \in Tasks(SessionOf[c]), Live(e)
    PROVE  e = d \/ (e \in UpTo(c) /\ Ended(e))
<1>1. e \in UpTo(c)
  BY Settled
<1>2. e = d \/ e \in After[d] \/ d \in After[e]
  BY UpToTasks DEF Good, InTurn, Tasks
<1> QED BY <1>1, <1>2 DEF Live

(* The queue holds no task but the one whose turn it is.                   *)
LEMMA OnlyQueued ==
    ASSUME SessionInv, NEW c \in TaskCalls, Good(c), BoundUpTo(c), faults = 0,
           NEW d \in UpTo(c), Live(d), ~Ended(d), NEW i \in 1..Len(activeTasks[SessionOf[c]])
    PROVE  activeTasks[SessionOf[c]][i] = d
<1> DEFINE p == SessionOf[c]
           q == activeTasks[p][i]
<1>1. p \in Sessions
  BY PluginAssumption DEF Sessions, Range
<1>2. activeTasks[p] \in Seq(TaskCalls) /\ SessionOf[q] = p /\ (q \in reserved \/ q \in completed)
  BY <1>1 DEF SessionInv, QueueInv
<1>3. q \in TaskCalls /\ q \in Calls
  BY <1>2, ElementOfSeq, PluginAssumption
<1>4. q \in Tasks(p) /\ Live(q)
  BY <1>2, <1>3 DEF Tasks, SessionInv, LiveInv, Begun
<1>5. ASSUME q \in UpTo(c), Ended(q) PROVE FALSE
  <2>1. PICK k \in Children : TaskOf[k] = q
    BY <1>5 DEF Good, Regular
  <2>2. Bound(k) /\ Over(q)
    BY <1>5, <2>1 DEF BoundUpTo, Over, Ended
  <2>3. ~Queued(q)
    BY <2>1, <2>2 DEF Bound
  <2> QED BY <1>2, <2>3 DEF Queued
<1> QED BY <1>4, <1>5, Alone DEF SessionInv

-----------------------------------------------------------------------------
(* The child of a task in turn *)

LEMMA FaultsStay ==
    ASSUME CallInv, [Next]_vars, faults' = 0
    PROVE  faults = 0
<1>1. faults \in Nat
  BY PluginAssumption DEF CallInv, Types
<1>2. ASSUME NEW c \in Calls, CallAction(c) PROVE faults = 0
  BY <1>2, CallActions DEF Stepped
<1> QED BY <1>2 DEF Next, CallAction, OpenGate, SessionCreated, TaskFound, TaskNotFound,
                    ChildRequest, vars

(* What any step leaves of the call that a child session is of. *)
LEMMA ChildsCall ==
    ASSUME CallInv, [Next]_vars, NEW s \in Children, Regular(TaskOf[s]), Bound(s), faults' = 0
    PROVE  LET c == TaskOf[s]
           IN  /\ Over(c)' => Over(c) \/ binding[s] # "none"
               /\ call'[c] = "running" => c \in reserved'
               /\ c \in reserved \/ c \in completed => c \in reserved' \/ c \in completed'
<1>1. TaskOf[s] \in Calls
  BY PluginAssumption
<1>2. Moves(TaskOf[s])
  BY <1>1, CallsMove
<1> QED BY <1>2 DEF Moves, Regular, Bound

LEMMA BoundStays ==
    ASSUME CallInv, [Next]_vars, NEW s \in Children, Regular(TaskOf[s]), Bound(s), faults' = 0,
           binding'[s] = binding[s], parentOf'[s] = parentOf[s],
           headers'[s] \in {"unsent", TaskOf[s]},
           Queued(TaskOf[s]) <=> Queued(TaskOf[s])',
           TaskOf[s] \in reserved' => TaskOf[s] \in reserved
    PROVE  Bound(s)'
BY ChildsCall DEF Bound

LEMMA QueuedSame ==
    ASSUME NEW c, activeTasks'[SessionOf[c]] = activeTasks[SessionOf[c]]
    PROVE  Queued(c) <=> Queued(c)'
BY DEF Queued

LEMMA QueuedGrows ==
    ASSUME QueueInv, NEW e \in Calls, ToolGranted(e), NEW d \in TaskCalls
    PROVE  /\ d # e => (Queued(d) <=> Queued(d)')
           /\ d = e /\ (\A k \in Children : binding[k] # e) => Queued(d)'
<1> DEFINE p == SessionOf[e]
           old == activeTasks[p]
           q == Append(old, e)
<1>1. p \in Sessions /\ SessionOf[d] \in Sessions
  BY PluginAssumption DEF Sessions, Range
<1>2. /\ \/ activeTasks' = activeTasks
         \/ e \in TaskCalls /\ activeTasks' = [activeTasks EXCEPT ![p] = q]
      /\ e \in TaskCalls /\ (\A k \in Children : binding[k] # e) =>
            activeTasks' = [activeTasks EXCEPT ![p] = q]
  BY DEF ToolGranted
<1>3. CASE activeTasks' = activeTasks /\ ~(e \in TaskCalls /\ \A k \in Children : binding[k] # e)
  BY <1>3, QueuedSame
<1>4. CASE e \in TaskCalls /\ activeTasks' = [activeTasks EXCEPT ![p] = q]
  <2>1. activeTasks'[p] = q /\ \A r \in Sessions \ {p} : activeTasks'[r] = activeTasks[r]
    BY <1>1, <1>4 DEF QueueInv
  <2>2. old \in Seq(TaskCalls)
    BY <1>1 DEF QueueInv
  <2>3. /\ Len(old) \in Nat /\ Len(q) = Len(old) + 1
        /\ \A i \in 1..Len(old) : q[i] = old[i]
        /\ q[Len(old) + 1] = e
    BY <1>4, <2>2, Appending
  <2>4. CASE SessionOf[d] # p
    BY <1>1, <2>1, <2>4, QueuedSame
  <2>5. CASE SessionOf[d] = p
    <3>1. /\ Queued(d) <=> \E i \in 1..Len(old) : old[i] = d
          /\ Queued(d)' <=> \E i \in 1..Len(q) : q[i] = d
      BY <2>1, <2>5 DEF Queued
    <3> HIDE DEF old, q
    <3>2. /\ \A i \in 1..Len(q) : i \in 1..Len(old) \/ i = Len(old) + 1
          /\ \A i \in 1..Len(old) : i \in 1..Len(q)
          /\ Len(old) + 1 \in 1..Len(q)
      BY ONLY <2>3
    <3> QED BY <2>3, <3>1, <3>2
  <2> QED BY <2>4, <2>5
<1> QED BY <1>2, <1>3, <1>4

LEMMA BoundGrants ==
    ASSUME CallInv, SessionInv, [Next]_vars, NEW c \in TaskCalls, Good(c), BoundUpTo(c),
           faults = 0, faults' = 0, NEW e \in Calls, ToolGranted(e),
           NEW s \in Children, TaskOf[s] \in UpTo(c)
    PROVE  Bound(s)'
<1> DEFINE d == TaskOf[s]
<1>1. /\ start[e] = "tool" /\ reserved' = reserved \cup {e} /\ UNCHANGED <<completed, headers>>
      /\ binding' = [k \in Children |-> IF binding[k] = e THEN "handled" ELSE binding[k]]
      /\ parentOf' = [k \in Children |-> IF binding[k] = e THEN e ELSE parentOf[k]]
  BY DEF ToolGranted
<1>2. Bound(s) /\ Regular(d) /\ d \in TaskCalls /\ d \in Calls /\ SessionOf[d] = SessionOf[c]
  BY UpToTasks DEF BoundUpTo, Good
<1>3. binding'[s] = binding[s] /\ parentOf'[s] = parentOf[s] /\ headers'[s] \in {"unsent", d}
  <2>1. binding[s] # e
    BY <1>2, PluginAssumption DEF Bound
  <2> QED BY <1>1, <1>2, <2>1 DEF Bound
<1>4. CASE d # e
  <2>1. Queued(d) <=> Queued(d)'
    BY <1>2, <1>4, QueuedGrows DEF SessionInv
  <2> QED BY <1>1, <1>2, <1>3, <1>4, <2>1, BoundStays
<1>5. CASE d = e
  <2>1. d \notin reserved /\ d \notin completed /\ Live(d)
    BY <1>1, <1>2, <1>5 DEF CallInv, OneCall, SessionInv, LiveInv, Begun
  <2>2. binding[s] = "none" /\ ~Over(d) /\ ~Ended(d)
    BY <1>2, <2>1 DEF Bound, Over, Ended
  <2>3. ASSUME NEW k \in Children, binding[k] = e PROVE FALSE
    <3> DEFINE f == TaskOf[k]
    <3>1. f \in TaskCalls /\ Live(f) /\ SessionOf[f] = SessionOf[c]
      BY <1>2, <1>5, <2>3, PluginAssumption DEF SessionInv, AskInv, ParentSession
    <3>2. f = d \/ f \in UpTo(c)
      BY <2>1, <2>2, <3>1, Alone DEF Tasks, SessionInv
    <3>3. f \in UpTo(c)
      BY <3>2
    <3>4. binding[k] \in {"none", "handled"}
      BY <3>3 DEF BoundUpTo, Bound
    <3> QED BY <2>3, <3>4, PluginAssumption
  <2>4. Queued(d)'
    BY <1>2, <1>5, <2>3, QueuedGrows DEF SessionInv
  <2>5. Over(d)' => Over(d) \/ binding[s] # "none"
    BY <1>2, ChildsCall
  <2> QED BY <1>1, <1>3, <1>5, <2>2, <2>4, <2>5 DEF Bound
<1> QED BY <1>4, <1>5

(* The child that is created is of the only task in the queue.             *)
LEMMA BoundByQueue ==
    ASSUME CallInv, SessionInv, [Next]_vars, NEW c \in TaskCalls, Good(c), BoundUpTo(c),
           faults = 0, faults' = 0, NEW s \in Children, SessionCreated(s), TaskOf[s] \in UpTo(c)
    PROVE  Bound(s)'
<1> DEFINE d == TaskOf[s]
           p == SessionOf[c]
           old == activeTasks[p]
<1>1. /\ call[d] = "running" /\ binding[s] = "none"
      /\ UNCHANGED <<call, reserved, completed, headers>>
  BY DEF SessionCreated
<1>2. Bound(s) /\ d \in TaskCalls /\ d \in Calls /\ SessionOf[d] = p /\ ParentSession(s) = p
  BY UpToTasks DEF BoundUpTo, ParentSession
<1>3. p \in Sessions /\ activeTasks \in [Sessions -> Seq(TaskCalls)]
  BY PluginAssumption DEF Sessions, Range, SessionInv, QueueInv
<1>4. d \in reserved /\ Queued(d) /\ ~Ended(d) /\ Live(d)
  BY <1>1, <1>2 DEF Bound, Ended, SessionInv, LiveInv, Begun
<1>5. old \in Seq(TaskCalls) /\ old # <<>>
  <2>1. Len(<<>>) = 0 /\ 1..0 = {}
    BY EmptySeq
  <2>2. \E i \in 1..Len(old) : old[i] = d
    BY <1>2, <1>4 DEF Queued
  <2> QED BY <1>3, <2>1, <2>2
<1>6. /\ activeTasks' = [activeTasks EXCEPT ![p] = Tail(old)]
      /\ parentOf' = [parentOf EXCEPT ![s] = Head(old)]
      /\ binding' = [binding EXCEPT ![s] = "handled"]
  BY <1>2, <1>5 DEF SessionCreated
<1>7. /\ Len(old) \in Nat \ {0} /\ Len(Tail(old)) = Len(old) - 1
      /\ \A i \in 1..Len(old) - 1 : Tail(old)[i] = old[i + 1]
      /\ Head(old) = old[1] /\ DOMAIN old = 1..Len(old)
  BY <1>5, Tailing
<1>8. \A i \in 1..Len(old) : old[i] = d
  BY <1>4, OnlyQueued
<1>9. parentOf'[s] = d /\ binding'[s] = "handled"
  <2>1. 1 \in 1..Len(old)
    BY <1>7
  <2> QED BY <1>6, <1>7, <1>8, <2>1 DEF SessionInv, ChildTypes
<1>10. ~Queued(d)'
  <2>1. activeTasks'[p] = Tail(old)
    BY <1>3, <1>6
  <2>2. \A i, j \in 1..Len(old) : old[i] = old[j] => i = j
    BY <1>3, <1>7 DEF SessionInv, QueueInv, IsInjective
  <2>3. ASSUME NEW i \in 1..Len(Tail(old)), Tail(old)[i] = d PROVE FALSE
    <3> HIDE DEF old
    <3>1. i \in 1..Len(old) - 1 /\ i + 1 \in 1..Len(old) /\ 1 \in 1..Len(old) /\ i + 1 # 1
      BY <1>7
    <3>2. old[i + 1] = d /\ old[1] = d
      BY <1>8, <3>1
    <3> QED BY <2>2, <3>1, <3>2
  <2> QED BY <1>2, <2>1, <2>3 DEF Queued
<1> QED BY <1>1, <1>2, <1>4, <1>9, <1>10 DEF Bound, Over

LEMMA BoundOfOthers ==
    ASSUME CallInv, SessionInv, [Next]_vars, NEW c \in TaskCalls, Good(c), BoundUpTo(c),
           faults = 0, faults' = 0, NEW k \in Children, SessionCreated(k),
           NEW s \in Children \ {k}, TaskOf[s] \in UpTo(c)
    PROVE  Bound(s)'
<1> DEFINE d == TaskOf[s]
           f == TaskOf[k]
           p == ParentSession(k)
           old == activeTasks[p]
<1>1. /\ call[f] = "running" /\ UNCHANGED <<call, reserved, completed, headers>>
      /\ \E x : binding' = [binding EXCEPT ![k] = x]
      /\ parentOf' = parentOf \/ \E x : parentOf' = [parentOf EXCEPT ![k] = x]
      /\ \/ activeTasks' = activeTasks
         \/ old # <<>> /\ activeTasks' = [activeTasks EXCEPT ![p] = Tail(old)]
  BY DEF SessionCreated
<1>2. Bound(s) /\ Regular(d) /\ d \in TaskCalls /\ d \in Calls /\ SessionOf[d] = SessionOf[c]
  BY UpToTasks DEF BoundUpTo, Good
<1>3. binding'[s] = binding[s] /\ parentOf'[s] = parentOf[s] /\ headers'[s] \in {"unsent", d}
  BY <1>1, <1>2 DEF SessionInv, ChildTypes, Bound
<1>4. p \in Sessions /\ SessionOf[d] \in Sessions /\ activeTasks \in [Sessions -> Seq(TaskCalls)]
  BY PluginAssumption DEF ParentSession, Sessions, Range, SessionInv, QueueInv
<1>5. f \in TaskCalls /\ f \in Calls /\ f # d /\ p = SessionOf[f]
  BY PluginAssumption DEF ParentSession
<1>6. CASE SessionOf[d] # p \/ activeTasks' = activeTasks
  <2>1. Queued(d) <=> Queued(d)'
    BY <1>1, <1>4, <1>6, QueuedSame
  <2> QED BY <1>1, <1>2, <1>3, <2>1, BoundStays
<1>7. CASE SessionOf[d] = p /\ old # <<>> /\ activeTasks' = [activeTasks EXCEPT ![p] = Tail(old)]
  <2>1. f \in Tasks(SessionOf[c]) /\ Live(f) /\ ~Ended(f)
    BY <1>1, <1>2, <1>5, <1>7 DEF Tasks, SessionInv, LiveInv, Begun, Ended
  <2>2. ASSUME d \in reserved, ~Over(d) PROVE FALSE
    <3>1. d \in Tasks(SessionOf[c]) /\ Live(d) /\ ~Ended(d)
      BY <1>2, <2>2 DEF Tasks, SessionInv, LiveInv, Begun, Over, Ended
    <3>2. f \in UpTo(c)
      BY <2>1, <3>1, Settled DEF SessionInv
    <3> QED BY <1>5, <2>1, <3>1, <3>2, Alone DEF SessionInv
  <2>3. ~Queued(d) => ~Queued(d)'
    <3>1. activeTasks'[p] = Tail(old) /\ old \in Seq(TaskCalls)
      BY <1>4, <1>7
    <3>2. /\ Len(old) \in Nat \ {0} /\ Len(Tail(old)) = Len(old) - 1
          /\ \A i \in 1..Len(old) - 1 : Tail(old)[i] = old[i + 1]
      BY <1>7, <3>1, Tailing
    <3>3. /\ Queued(d) <=> \E i \in 1..Len(old) : old[i] = d
          /\ Queued(d)' <=> \E i \in 1..Len(Tail(old)) : Tail(old)[i] = d
      BY <1>7, <3>1 DEF Queued
    <3> HIDE DEF old
    <3>4. \A i \in 1..Len(Tail(old)) : i \in 1..Len(old) - 1 /\ i + 1 \in 1..Len(old)
      BY <3>2
    <3> QED BY <3>2, <3>3, <3>4
  <2>4. (call'[d] = "running" => d \in reserved') /\ (d \in reserved' <=> d \in reserved)
        /\ (d \in completed' <=> d \in completed) /\ (Over(d)' <=> Over(d))
    BY <1>1, <1>2 DEF Bound, Over
  <2> QED BY <1>2, <1>3, <2>2, <2>3, <2>4 DEF Bound
<1> QED BY <1>1, <1>6, <1>7

LEMMA ChildrenKept ==
    ASSUME CallInv, SessionInv, ChildInv, [Next]_vars
    PROVE  ChildInv'
<1> SUFFICES ASSUME NEW c \in TaskCalls, Good(c), faults' = 0,
                    NEW s \in Children, TaskOf[s] \in UpTo(c)
             PROVE  Bound(s)'
  BY DEF ChildInv, BoundUpTo, Good, InTurn, UpTo, Tasks, Regular
<1>1. faults = 0 /\ BoundUpTo(c)
  BY FaultsStay DEF ChildInv
<1>2. Bound(s) /\ Regular(TaskOf[s])
  BY <1>1 DEF BoundUpTo, Good
<1>3. CASE Leaves
  <2>1. /\ binding'[s] = binding[s] /\ parentOf'[s] = parentOf[s] /\ headers'[s] = headers[s]
        /\ TaskOf[s] \in reserved' => TaskOf[s] \in reserved
        /\ activeTasks' = activeTasks
    BY <1>2, <1>3 DEF Leaves, Bound
  <2>2. Queued(TaskOf[s]) <=> Queued(TaskOf[s])'
    BY <2>1, QueuedSame
  <2> QED BY <1>2, <2>1, <2>2, BoundStays DEF Bound
<1>4. ASSUME NEW e \in Calls, ToolGranted(e) PROVE Bound(s)'
  BY <1>1, <1>4, BoundGrants
<1>5. ASSUME NEW k \in Children, SessionCreated(k) PROVE Bound(s)'
  BY <1>1, <1>5, BoundByQueue, BoundOfOthers
<1>6. ASSUME NEW k \in Children, ChildRequest(k) PROVE Bound(s)'
  <2>1. /\ binding[k] # "none" /\ headers' = [headers EXCEPT ![k] = parentOf[k]]
        /\ UNCHANGED <<binding, parentOf, activeTasks, reserved>>
    BY <1>6 DEF ChildRequest
  <2>2. headers'[s] \in {"unsent", TaskOf[s]}
    BY <1>2, <2>1 DEF Bound, SessionInv, ChildTypes
  <2>3. Queued(TaskOf[s]) <=> Queued(TaskOf[s])'
    BY <2>1, QueuedSame
  <2> QED BY <1>2, <2>1, <2>2, <2>3, BoundStays
<1> QED BY <1>3, <1>4, <1>5, <1>6, ChildSteps DEF SessionInv

LEMMA ChildrenBegin == Init => ChildInv
<1> SUFFICES ASSUME Init, NEW s \in Children PROVE Bound(s)
  BY DEF ChildInv, BoundUpTo
<1>1. TaskOf[s] \in Calls
  BY PluginAssumption
<1> QED BY <1>1 DEF Init, Bound, Over

-----------------------------------------------------------------------------
(* What the boundary is told *)

(* However hooks and repeated events of a call interleave, the boundary is *)
(* told of one dispatch with one tool inside it, each begun and ended once *)
(* and in this order; after refusals posts repeat, but none comes before   *)
(* the one it follows (startTool, finish and their promise tables).        *)
THEOREM BoundaryIsTold == Spec => []BoundaryOrder
<1>1. CallInv => BoundaryOrder
  <2> SUFFICES ASSUME CallInv, NEW c \in Calls
               PROVE  /\ faults = 0 => IsPrefix(posts[c], Proper)
                      /\ call[c] = "done" => Last(posts[c]) = "end dispatch"
                      /\ \A i \in 1..Len(posts[c]) - 1 : MayFollow(posts[c][i], posts[c][i + 1])
    BY DEF BoundaryOrder, MayFollow, Proper
  <2>1. OneCall(c) /\ Told(c)
    BY DEF CallInv
  <2>2. ASSUME faults = 0 PROVE IsPrefix(posts[c], Proper)
    <3> DEFINE s == posts[c]
               n == Len(s)
    <3>1. s \in Seq(PostKinds) /\ n \in Nat /\ \A i \in 1..n : s[i] = Proper[i]
      BY <2>1, <2>2, LenProperties DEF Told, InOrder
    <3>2. n \in 0..4
      <4>1. n = Shown(c)
        BY <2>1, <2>2 DEF Told
      <4>2. Shown(c) \in 0..4
        BY DEF Shown
      <4> QED BY ONLY <4>1, <4>2, Zenon
    <3>3. Proper \in Seq(PostKinds) /\ Len(Proper) = 4
      BY DEF Proper, PostKinds
    <3>4. \A i \in 1..n : s[i] \in PostKinds
      BY <3>1, ElementOfSeq
    <3> HIDE DEF s, n
    <3>5. /\ SubSeq(s, 1, n) \in Seq(PostKinds) /\ Len(SubSeq(s, 1, n)) = n
          /\ \A i \in 1..n : SubSeq(s, 1, n)[i] = s[i]
      <4>1. /\ SubSeq(s, 1, n) \in Seq(PostKinds)
            /\ Len(SubSeq(s, 1, n)) = IF 1 <= n THEN n - 1 + 1 ELSE 0
            /\ \A i \in 1..n - 1 + 1 : SubSeq(s, 1, n)[i] = s[1 + i - 1]
        BY ONLY <3>1, <3>4, SubSeqProperties
      <4> QED BY ONLY <3>1, <4>1
    <3>6. /\ SubSeq(Proper, 1, n) \in Seq(PostKinds) /\ Len(SubSeq(Proper, 1, n)) = n
          /\ \A i \in 1..n : SubSeq(Proper, 1, n)[i] = Proper[i]
      <4>1. \A i \in 1..n : Proper[i] \in PostKinds
        BY <3>1, <3>4
      <4>2. /\ SubSeq(Proper, 1, n) \in Seq(PostKinds)
            /\ Len(SubSeq(Proper, 1, n)) = IF 1 <= n THEN n - 1 + 1 ELSE 0
            /\ \A i \in 1..n - 1 + 1 : SubSeq(Proper, 1, n)[i] = Proper[1 + i - 1]
        BY ONLY <3>1, <4>1, SubSeqProperties
      <4> QED BY ONLY <3>1, <4>2
    <3> DEFINE p == SubSeq(s, 1, n)
               q == SubSeq(Proper, 1, n)
    <3>7. p = q
      <4>1. /\ p \in Seq(PostKinds) /\ q \in Seq(PostKinds) /\ Len(p) = Len(q)
            /\ \A i \in 1..Len(p) : p[i] = q[i]
        BY <3>1, <3>5, <3>6
      <4> HIDE DEF p, q
      <4> QED BY ONLY <4>1, SeqEqual
    <3> QED BY <3>2, <3>3, <3>7 DEF IsPrefix, n, s
  <2>3. ASSUME call[c] = "done" PROVE Last(posts[c]) = "end dispatch"
    <3>1. c \in completed
      BY <2>1, <2>3 DEF OneCall
    <3>2. Shown(c) = 4 /\ LastPosts(c) = {"end dispatch"}
      BY <3>1 DEF Shown, LastPosts
    <3>3. Shown(c) # 0
      BY <3>1 DEF Shown
    <3> QED BY <2>1, <3>2, <3>3 DEF Told
  <2>4. \A i \in 1..Len(posts[c]) - 1 : MayFollow(posts[c][i], posts[c][i + 1])
    BY <2>1 DEF Told, InOrder
  <2> QED BY <2>2, <2>3, <2>4
<1>2. Init => CallInv
  BY CallsBegin
<1>3. CallInv /\ [Next]_vars => CallInv'
  BY CallsKept
<1> QED BY <1>1, <1>2, <1>3, PTL DEF Spec

(* The promise tables, the queues of active tasks and what is known of a   *)
(* child session keep their types: a reservation has its dispatch, and a   *)
(* task waits in its queue once (startTool, finish, session.created).      *)
THEOREM TypeCorrect == Spec => []TypeOK
<1> DEFINE IInv == CallInv /\ SessionInv
<1>1. IInv => TypeOK
  <2> SUFFICES ASSUME CallInv, SessionInv PROVE TypeOK
    OBVIOUS
  <2>1. ASSUME NEW s \in Sessions
        PROVE  Range(activeTasks[s]) \subseteq TaskCalls /\ IsInjective(activeTasks[s])
    <3>1. activeTasks[s] \in Seq(TaskCalls) /\ IsInjective(activeTasks[s])
      BY DEF SessionInv, QueueInv
    <3>2. DOMAIN activeTasks[s] = 1..Len(activeTasks[s])
      BY <3>1, LenProperties
    <3> QED BY <3>1, <3>2, ElementOfSeq DEF Range
  <2>2. reserved \subseteq dispatched
    BY DEF CallInv, Types, OneCall
  <2> QED BY <2>1, <2>2 DEF TypeOK, CallInv, Types, SessionInv, ChildTypes
<1>2. Init => IInv
  BY CallsBegin, SessionsBegin
<1>3. IInv /\ [Next]_vars => IInv'
  BY CallsKept, SessionsKept
<1> QED BY <1>1, <1>2, <1>3, PTL DEF Spec

(* Where a session makes its tasks one after the other, and none of them   *)
(* went past the hook, was refused or failed before its child was created, *)
(* the oldest task in the queue is the one whose child is created, and the *)
(* child's first request names it (session.created, chat.headers).         *)
THEOREM ChildrenAreBound == Spec => []HookedChildrenAreBound
<1> DEFINE IInv == CallInv /\ SessionInv /\ ChildInv
<1>1. ChildInv => HookedChildrenAreBound
  <2> SUFFICES ASSUME ChildInv, faults = 0, NEW s \in Children, InTurn(ParentSession(s)),
                      \A c \in UpTo(TaskOf[s]) : Regular(c)
               PROVE  headers[s] \in {"unsent", TaskOf[s]}
    BY DEF HookedChildrenAreBound
  <2>1. TaskOf[s] \in TaskCalls /\ TaskOf[s] \in UpTo(TaskOf[s]) /\ Good(TaskOf[s])
    BY PluginAssumption, UpToTasks DEF Good, ParentSession
  <2>2. Bound(s)
    BY <2>1 DEF ChildInv, BoundUpTo
  <2> QED BY <2>2 DEF Bound
<1>2. Init => IInv
  BY CallsBegin, SessionsBegin, ChildrenBegin
<1>3. IInv /\ [Next]_vars => IInv'
  BY CallsKept, SessionsKept, ChildrenKept
<1> QED BY <1>1, <1>2, <1>3, PTL DEF Spec
=============================================================================
