--------------------------- MODULE FrameFeedProofs ---------------------------
(***************************************************************************)
(* What FrameFeed promises, proved for every limit of the queues and any   *)
(* number of frames and changes of mode: the types, and that the HDF gets  *)
(* the frames fed, each of them and in order.                              *)
(***************************************************************************)
EXTENDS FrameFeed, TLAPS

Numbers == 1 .. MaxFrames
Sorted(s) == \A i, j \in DOMAIN s : i < j => s[i] < s[j]

(* What an Append, a Tail and a frame put back at the front do to the      *)
(* frames of a queue, and to their order.                                  *)
LEMMA Appended ==
  ASSUME NEW s \in Seq(Numbers), NEW x \in Numbers
  PROVE  /\ Append(s, x) \in Seq(Numbers) /\ Len(Append(s, x)) = Len(s) + 1 /\ Append(s, x) # <<>>
         /\ Elements(Append(s, x)) = Elements(s) \union {x}
         /\ s # <<>> => Head(Append(s, x)) = Head(s)
         /\ s = <<>> => Head(Append(s, x)) = x
         /\ Sorted(s) /\ (\A y \in Elements(s) : y < x) => Sorted(Append(s, x))
<1> DEFINE a == Append(s, x)
<1>1. /\ a \in Seq(Numbers) /\ Len(a) = Len(s) + 1 /\ DOMAIN a = 1 .. Len(s) + 1 /\ a # <<>>
      /\ DOMAIN s = 1 .. Len(s) /\ Len(s) \in Nat
      /\ a[Len(s) + 1] = x /\ \A i \in 1 .. Len(s) : a[i] = s[i]
  OBVIOUS
<1>2. \A i \in DOMAIN s : s[i] \in Numbers
  OBVIOUS
<1> HIDE DEF a
<1>3. Elements(a) = Elements(s) \union {x}
  <2>1. Elements(a) \subseteq Elements(s) \union {x}
    BY <1>1 DEF Elements
  <2>2. Elements(s) \union {x} \subseteq Elements(a)
    <3>1. \A i \in DOMAIN s : i \in DOMAIN a
      BY <1>1
    <3>2. Len(s) + 1 \in DOMAIN a
      BY <1>1
    <3> QED BY <3>1, <3>2, <1>1 DEF Elements
  <2> QED BY <2>1, <2>2
<1>4. ASSUME Sorted(s), \A y \in Elements(s) : y < x  PROVE  Sorted(a)
  <2>1. \A i \in DOMAIN s : s[i] < x
    BY <1>4 DEF Elements
  <2> QED BY <1>1, <1>2, <1>4, <2>1 DEF Sorted, Numbers
<1>5. (s # <<>> => Head(a) = Head(s)) /\ (s = <<>> => Head(a) = x)
  BY DEF a
<1> QED BY <1>1, <1>3, <1>4, <1>5 DEF a

(* Its oldest frame leaves a queue: the rest is newer.                     *)
LEMMA Shortened ==
  ASSUME NEW s \in Seq(Numbers), s # <<>>
  PROVE  /\ Tail(s) \in Seq(Numbers) /\ Len(Tail(s)) = Len(s) - 1 /\ Len(s) >= 1
         /\ Head(s) \in Numbers /\ Head(s) \in Elements(s)
         /\ Elements(s) = Elements(Tail(s)) \union {Head(s)}
         /\ Sorted(s) => /\ Sorted(Tail(s)) /\ \A y \in Elements(Tail(s)) : Head(s) < y
                         /\ \A y \in Elements(s) : Head(s) <= y
<1> DEFINE r == Tail(s)
<1>1. /\ r \in Seq(Numbers) /\ Len(r) = Len(s) - 1 /\ Len(s) \in Nat /\ Len(s) >= 1
      /\ DOMAIN r = 1 .. Len(s) - 1 /\ DOMAIN s = 1 .. Len(s)
      /\ Head(s) = s[1] /\ \A i \in 1 .. Len(s) - 1 : r[i] = s[i + 1]
  OBVIOUS
<1>2. \A i \in DOMAIN s : s[i] \in Numbers
  OBVIOUS
<1> HIDE DEF r
<1>3. s[1] \in Numbers /\ s[1] \in Elements(s)
  BY <1>1, <1>2 DEF Elements
<1>4. Elements(s) = Elements(r) \union {s[1]}
  <2>1. \A i \in DOMAIN s : i = 1 \/ (i - 1 \in DOMAIN r /\ s[i] = r[i - 1])
    BY <1>1
  <2>2. Elements(s) \subseteq Elements(r) \union {s[1]}
    BY <2>1 DEF Elements
  <2>3. \A i \in DOMAIN r : i + 1 \in DOMAIN s /\ r[i] = s[i + 1]
    BY <1>1
  <2>4. Elements(r) \subseteq Elements(s)
    BY <2>3 DEF Elements
  <2> QED BY <2>2, <2>4, <1>3
<1>5. ASSUME Sorted(s)
      PROVE  Sorted(r) /\ (\A y \in Elements(r) : s[1] < y) /\ \A y \in Elements(s) : s[1] <= y
  <2>1. \A i \in DOMAIN r : i + 1 \in DOMAIN s /\ r[i] = s[i + 1] /\ 1 < i + 1 /\ i \in Nat
    BY <1>1
  <2>2. 1 \in DOMAIN s
    BY <1>1
  <2>3. Sorted(r)
    BY <1>5, <2>1 DEF Sorted
  <2>4. \A y \in Elements(r) : s[1] < y
    BY <1>5, <2>1, <2>2 DEF Sorted, Elements
  <2>5. \A y \in Elements(s) : s[1] <= y
    <3> TAKE y \in Elements(s)
    <3>1. PICK i \in DOMAIN s : y = s[i]
      BY DEF Elements
    <3>2. i = 1 \/ 1 < i
      BY <1>1
    <3> QED BY <3>1, <3>2, <2>2, <1>2, <1>5 DEF Sorted, Numbers
  <2> QED BY <2>3, <2>4, <2>5
<1> QED BY <1>1, <1>3, <1>4, <1>5 DEF r

(* An early frame goes back to the front of the sync queue.                *)
LEMMA PutBack ==
  ASSUME NEW s \in Seq(Numbers), NEW x \in Numbers
  PROVE  /\ <<x>> \o s \in Seq(Numbers) /\ Len(<<x>> \o s) = Len(s) + 1
         /\ Elements(<<x>> \o s) = Elements(s) \union {x}
         /\ Sorted(s) /\ (\A y \in Elements(s) : x < y) => Sorted(<<x>> \o s)
<1> DEFINE a == <<x>> \o s
<1>1. /\ a \in Seq(Numbers) /\ Len(a) = Len(s) + 1 /\ DOMAIN a = 1 .. Len(s) + 1
      /\ DOMAIN s = 1 .. Len(s) /\ Len(s) \in Nat
      /\ a[1] = x /\ \A i \in 1 .. Len(s) : a[i + 1] = s[i]
  OBVIOUS
<1>2. \A i \in DOMAIN s : s[i] \in Numbers
  OBVIOUS
<1> HIDE DEF a
<1>3. \A i \in DOMAIN a : (i = 1 /\ a[i] = x) \/ (1 < i /\ i - 1 \in DOMAIN s /\ a[i] = s[i - 1])
  <2> TAKE i \in DOMAIN a
  <2>1. CASE i = 1
    BY <2>1, <1>1
  <2>2. CASE i # 1
    <3>1. i - 1 \in 1 .. Len(s) /\ i - 1 + 1 = i /\ 1 < i
      BY <2>2, <1>1
    <3> QED BY <3>1, <1>1
  <2> QED BY <2>1, <2>2
<1>4. Elements(a) = Elements(s) \union {x}
  <2>1. Elements(a) \subseteq Elements(s) \union {x}
    BY <1>3 DEF Elements
  <2>2. \A i \in DOMAIN s : i + 1 \in DOMAIN a /\ a[i + 1] = s[i]
    BY <1>1
  <2>3. 1 \in DOMAIN a /\ a[1] = x
    BY <1>1
  <2>4. Elements(s) \union {x} \subseteq Elements(a)
    BY <2>2, <2>3 DEF Elements
  <2> QED BY <2>1, <2>4
<1>5. ASSUME Sorted(s), \A y \in Elements(s) : x < y  PROVE  Sorted(a)
  <2>1. \A i \in DOMAIN s : x < s[i]
    BY <1>5 DEF Elements
  <2>2. ASSUME NEW i \in DOMAIN a, NEW j \in DOMAIN a, i < j  PROVE  a[i] < a[j]
    <3>1. i \in Nat /\ j \in Nat /\ 1 < j
      BY <2>2, <1>1
    <3>2. j - 1 \in DOMAIN s /\ a[j] = s[j - 1]
      BY <3>1, <1>3
    <3>3. CASE i = 1
      BY <3>2, <3>3, <2>1, <1>1
    <3>4. CASE i # 1
      <4>1. i - 1 \in DOMAIN s /\ a[i] = s[i - 1] /\ i - 1 < j - 1
        BY <3>1, <3>4, <1>3, <2>2
      <4> QED BY <4>1, <3>2, <1>5 DEF Sorted
    <3> QED BY <3>3, <3>4
  <2> QED BY <2>2 DEF Sorted
<1> QED BY <1>1, <1>4, <1>5 DEF a

(* An empty queue has no frames, in order.                                 *)
LEMMA NoElements == Elements(<<>>) = {} /\ Sorted(<<>>) /\ <<>> \in Seq(Numbers) /\ Len(<<>>) = 0
  BY DEF Elements, Sorted

----------------------------------------------------------------------------
(* Types: the places of each thread, what it has in its hands there, and   *)
(* the one kind of stream that its threads serve.                          *)
Places == {"off", "look", "drowsy", "asleep", "pace", "notify", "map", "spin", "taking", "hold", "put", "pop",
           "check", "compare", "feed", "clock", "ended"}
ShapeInv ==
  /\ kind \in {"photo", "video"} /\ running \in [Threads -> BOOLEAN]
  /\ at \in [Threads -> Places] /\ held \in [Threads -> 0 .. MaxFrames]
  /\ frames \in 0 .. MaxFrames /\ mode \in 0 .. MaxModes /\ modes \in 0 .. MaxModes
  /\ changing \in 0 .. NoMode /\ memory \in [of : 0 .. MaxModes, ok : BOOLEAN]
QueuesInv ==
  /\ buffers \in Seq(Numbers) /\ smoothing \in Seq(Numbers) /\ tasks \in Seq(Numbers)
  /\ syncing \in Seq(Numbers) /\ driver \in Seq(Numbers)
  /\ Len(buffers) <= MaxPhotos /\ Len(syncing) <= MaxSync + 1
  /\ held["sync"] # 0 => Len(syncing) <= MaxSync
KindInv ==
  /\ kind = "photo" => /\ \A t \in {"smooth", "event", "sync"} : at[t] = "off" /\ held[t] = 0
                       /\ smoothing = <<>> /\ tasks = <<>> /\ syncing = <<>>
  /\ kind = "video" => at["snap"] = "off" /\ buffers = <<>>
Smoothed == at["smooth"] \in {"pace", "notify", "map", "spin", "taking", "hold", "put", "pop"}
HeldInv ==
  /\ held["event"] # 0 <=> at["event"] = "feed"
  /\ at["sync"] \in {"check", "compare", "feed"} => held["sync"] # 0
  /\ at["sync"] \in {"off", "look", "drowsy", "asleep", "clock", "ended"} => held["sync"] = 0
  /\ Smoothed => smoothing # <<>> /\ held["smooth"] = Head(smoothing)
  /\ at["snap"] \in {"feed", "pop"} => buffers # <<>> /\ held["snap"] # 0
TypeInv == ShapeInv /\ QueuesInv /\ KindInv /\ HeldInv

(* The types hold before Start.                                            *)
LEMMA InitTypes == Init => TypeInv
<1> SUFFICES ASSUME Init PROVE TypeInv
  OBVIOUS
<1> USE SizesAssumption, BoundsAssumption DEF Init
<1>1. ShapeInv
  BY DEF ShapeInv, Threads, Places, NoMemory, NoMode
<1>2. QueuesInv /\ KindInv /\ HeldInv
  BY NoElements DEF QueuesInv, KindInv, HeldInv, Smoothed, Threads
<1> QED BY <1>1, <1>2 DEF TypeInv

(* A step that leaves the frames alone keeps the types if the threads only *)
(* go where their hands allow.                                             *)
LEMMA TypesStep == TypeInv /\ [Next]_vars => TypeInv'
<1> SUFFICES ASSUME TypeInv, [Next]_vars PROVE TypeInv'
  OBVIOUS
<1> USE SizesAssumption, BoundsAssumption
<1>s. ShapeInv /\ QueuesInv /\ KindInv /\ HeldInv
  BY DEF TypeInv
<1>t. "snap" \in Threads /\ "smooth" \in Threads /\ "event" \in Threads /\ "sync" \in Threads
  BY DEF Threads
<1>m. NoMemory \in [of : 0 .. MaxModes, ok : BOOLEAN] /\ NoMode \in 0 .. NoMode
  BY DEF NoMemory, NoMode
<1>h. held["sync"] # 0 => held["sync"] \in Numbers
  BY <1>s, <1>t DEF ShapeInv, Numbers
<1>w. \A t \in Threads : Wake(t) \in Places /\ (Wake(t) = at[t] \/ (at[t] = "asleep" /\ Wake(t) = "look"))
  BY <1>s DEF Wake, ShapeInv, Places
<1> DEFINE All == ShapeInv /\ QueuesInv /\ KindInv /\ HeldInv
<1> USE <1>s, <1>t
<1>1. CASE Start
  <2>1. \A t \in Threads : at'[t] = (IF t \in Mine THEN "look" ELSE "off")
    BY <1>1 DEF Start
  <2>2. \A t \in Threads : at[t] = "off"
    BY <1>1 DEF Start
  <2>3. ShapeInv' /\ QueuesInv'
    BY <1>1 DEF Start, ShapeInv, QueuesInv, Mine, Places, queues, syncVars
  <2>4. KindInv' /\ HeldInv'
    BY <1>1, <2>1, <2>2 DEF Start, KindInv, HeldInv, Smoothed, Mine, queues
  <2> QED BY <2>3, <2>4 DEF TypeInv
<1>v. \A t \in {"snap", "smooth", "sync"} :
        Wake(t) \in Places /\ (Wake(t) = at[t] \/ (at[t] = "asleep" /\ Wake(t) = "look"))
  BY <1>w
<1>2. CASE FeedStream /\ FeedPhoto
  <2>1. frames + 1 \in Numbers /\ frames' = frames + 1 /\ kind = "photo"
    BY <1>2 DEF FeedStream, FeedPhoto, ShapeInv, Numbers
  <2>2. /\ buffers' \in Seq(Numbers) /\ Len(buffers') <= MaxPhotos /\ buffers' # <<>>
    BY <1>2, <2>1, Shortened, Appended, NoElements DEF FeedPhoto, QueuesInv
  <2>3. at' = [at EXCEPT !["snap"] = Wake("snap")]
    BY <1>2 DEF FeedPhoto, Goes
  <2>a. at' \in [Threads -> Places] /\ frames' \in 0 .. MaxFrames
    BY <1>v, <2>1, <2>3 DEF ShapeInv, Numbers
  <2>4. ShapeInv' /\ QueuesInv'
    BY <1>2, <2>a, <2>2 DEF FeedStream, FeedPhoto, ShapeInv, QueuesInv, syncVars
  <2>5. KindInv' /\ HeldInv'
    BY <1>2, <1>w, <2>1, <2>2, <2>3 DEF FeedStream, FeedPhoto, ShapeInv, KindInv, HeldInv, Smoothed
  <2> QED BY <2>4, <2>5 DEF TypeInv
<1>3. CASE FeedStream /\ PushData
  <2>1. frames + 1 \in Numbers /\ frames' = frames + 1 /\ kind = "video"
    BY <1>3 DEF FeedStream, PushData, ShapeInv, Numbers
  <2>2. /\ smoothing' \in Seq(Numbers) /\ smoothing' # <<>>
        /\ smoothing # <<>> => Head(smoothing') = Head(smoothing)
    BY <1>3, <2>1, Appended DEF PushData, QueuesInv
  <2>3. at' = [at EXCEPT !["smooth"] = Wake("smooth")]
    BY <1>3 DEF PushData, Goes
  <2>a. at' \in [Threads -> Places] /\ frames' \in 0 .. MaxFrames
    BY <1>v, <2>1, <2>3 DEF ShapeInv, Numbers
  <2>4. ShapeInv' /\ QueuesInv'
    BY <1>3, <2>a, <2>2 DEF FeedStream, PushData, ShapeInv, QueuesInv, syncVars
  <2>5. KindInv' /\ HeldInv'
    BY <1>3, <1>w, <2>1, <2>2, <2>3 DEF FeedStream, PushData, ShapeInv, KindInv, HeldInv, Smoothed
  <2> QED BY <2>4, <2>5 DEF TypeInv
<1>4. CASE LooperSnapShot /\ SnapLooks
  <2>1. kind = "photo"
    BY <1>4 DEF SnapLooks, KindInv, ShapeInv
  <2>2. buffers # <<>> => Head(buffers) \in Numbers
    BY Shortened DEF QueuesInv
  <2>a. at' \in [Threads -> Places]
    BY <1>4 DEF SnapLooks, Goes, ShapeInv, Places
  <2>b. held' \in [Threads -> 0 .. MaxFrames] /\ held'["sync"] = held["sync"]
    BY <1>4, <2>2 DEF SnapLooks, Takes, ShapeInv, Numbers
  <2>3. ShapeInv' /\ QueuesInv'
    BY <1>4, <2>a, <2>b DEF LooperSnapShot, SnapLooks, ShapeInv, QueuesInv, queues, syncVars
  <2>4. KindInv' /\ HeldInv'
    BY <1>4, <2>1, <2>2 DEF LooperSnapShot, SnapLooks, ShapeInv, KindInv, HeldInv, Smoothed, Goes, Takes, queues,
         Numbers
  <2> QED BY <2>3, <2>4 DEF TypeInv
<1>5. CASE LooperSnapShot /\ SnapFeeds
  <2>1. kind = "photo" /\ held["snap"] \in Numbers
    BY <1>5 DEF SnapFeeds, KindInv, HeldInv, ShapeInv, Numbers
  <2>2. driver' \in Seq(Numbers)
    BY <1>5, <2>1, Appended DEF SnapFeeds, Shuttered, QueuesInv
  <2>3. ShapeInv' /\ QueuesInv'
    BY <1>5, <2>2 DEF LooperSnapShot, SnapFeeds, ShapeInv, QueuesInv, Goes, queues, syncVars, Places
  <2>4. KindInv' /\ HeldInv'
    BY <1>5, <2>1 DEF LooperSnapShot, SnapFeeds, ShapeInv, KindInv, HeldInv, Smoothed, Goes, queues
  <2> QED BY <2>3, <2>4 DEF TypeInv
<1>6. CASE LooperSnapShot /\ SnapPops
  <2>1. kind = "photo" /\ buffers # <<>>
    BY <1>6 DEF SnapPops, KindInv, HeldInv, ShapeInv
  <2>2. buffers' \in Seq(Numbers) /\ Len(buffers') <= MaxPhotos
    BY <1>6, <2>1, Shortened DEF SnapPops, QueuesInv
  <2>3. ShapeInv' /\ QueuesInv'
    BY <1>6, <2>2 DEF LooperSnapShot, SnapPops, ShapeInv, QueuesInv, Goes, Takes, syncVars, Places
  <2>4. KindInv' /\ HeldInv'
    BY <1>6, <2>1 DEF LooperSnapShot, SnapPops, ShapeInv, KindInv, HeldInv, Smoothed, Goes, Takes
  <2> QED BY <2>3, <2>4 DEF TypeInv
<1>7. CASE LooperSmooth /\ (SmoothLooks \/ SmoothFeeding)
  <2>1. kind = "video"
    BY <1>7 DEF SmoothLooks, SmoothFeeding, KindInv, ShapeInv
  <2>2. smoothing # <<>> => Head(smoothing) \in Numbers
    BY Shortened DEF QueuesInv
  <2>a. at' \in [Threads -> Places]
    BY <1>7 DEF SmoothLooks, SmoothFeeding, Goes, ShapeInv, Places
  <2>b. held' \in [Threads -> 0 .. MaxFrames] /\ held'["sync"] = held["sync"]
    BY <1>7, <2>2 DEF SmoothLooks, SmoothFeeding, Takes, ShapeInv, Numbers
  <2>3. ShapeInv' /\ QueuesInv'
    BY <1>7, <2>a, <2>b DEF LooperSmooth, SmoothLooks, SmoothFeeding, ShapeInv, QueuesInv, queues
  <2>4. KindInv' /\ HeldInv'
    BY <1>7, <2>1, <2>2 DEF LooperSmooth, SmoothLooks, SmoothFeeding, ShapeInv, KindInv, HeldInv, Smoothed, Goes,
         Takes, queues
  <2> QED BY <2>3, <2>4 DEF TypeInv
<1>8. CASE LooperSmooth /\ OnSmoothFinished
  <2>1. kind = "video" /\ held["smooth"] \in Numbers
    <3>1. kind = "video" /\ smoothing # <<>> /\ held["smooth"] = Head(smoothing)
      BY <1>8 DEF OnSmoothFinished, KindInv, HeldInv, Smoothed, ShapeInv
    <3> QED BY <3>1, Shortened DEF QueuesInv
  <2>2. tasks' \in Seq(Numbers)
    BY <1>8, <2>1, Appended DEF OnSmoothFinished, QueuesInv
  <2>3. ShapeInv' /\ QueuesInv'
    BY <1>8, <2>2 DEF LooperSmooth, OnSmoothFinished, ShapeInv, QueuesInv, Goes, Places
  <2>4. KindInv' /\ HeldInv'
    BY <1>8, <2>1 DEF LooperSmooth, OnSmoothFinished, ShapeInv, KindInv, HeldInv, Smoothed, Goes
  <2> QED BY <2>3, <2>4 DEF TypeInv
<1>9. CASE LooperSmooth /\ MapsMemory
  <2>1. kind = "video"
    BY <1>9 DEF MapsMemory, KindInv, ShapeInv
  <2>2. memory' \in [of : 0 .. MaxModes, ok : BOOLEAN]
    BY <1>9 DEF MapsMemory, ShapeInv
  <2>3. \E p \in {"spin", "pop"} : at' = [at EXCEPT !["smooth"] = p]
    BY <1>9 DEF MapsMemory, Goes
  <2>4. ShapeInv' /\ QueuesInv'
    BY <1>9, <2>2, <2>3 DEF LooperSmooth, MapsMemory, ShapeInv, QueuesInv, queues, Places
  <2>5. KindInv' /\ HeldInv'
    BY <1>9, <2>1, <2>3 DEF LooperSmooth, MapsMemory, ShapeInv, KindInv, HeldInv, Smoothed, queues
  <2> QED BY <2>4, <2>5 DEF TypeInv
<1>10. CASE LooperSmooth /\ AddSyncBuffer
  <2>1. kind = "video" /\ held["smooth"] \in Numbers
    <3>1. kind = "video" /\ smoothing # <<>> /\ held["smooth"] = Head(smoothing)
      BY <1>10 DEF AddSyncBuffer, KindInv, HeldInv, Smoothed, ShapeInv
    <3> QED BY <3>1, Shortened DEF QueuesInv
  <2>2. /\ syncing' \in Seq(Numbers) /\ Len(syncing') <= MaxSync + 1
        /\ Len(syncing) <= MaxSync => Len(syncing') <= MaxSync
    BY <1>10, <2>1, Shortened, Appended, NoElements DEF AddSyncBuffer, QueuesInv
  <2>3. at' = [at EXCEPT !["smooth"] = "pop", !["sync"] = Wake("sync")]
    BY <1>10 DEF AddSyncBuffer
  <2>a. at' \in [Threads -> Places]
    BY <1>v, <2>3 DEF ShapeInv, Places
  <2>4. ShapeInv' /\ QueuesInv'
    BY <1>10, <2>a, <2>2 DEF LooperSmooth, AddSyncBuffer, ShapeInv, QueuesInv
  <2>5. KindInv' /\ HeldInv'
    BY <1>10, <1>v, <2>1, <2>3 DEF LooperSmooth, AddSyncBuffer, ShapeInv, KindInv, HeldInv, Smoothed
  <2> QED BY <2>4, <2>5 DEF TypeInv
<1>11. CASE LooperSmooth /\ SmoothPops
  <2>1. kind = "video" /\ smoothing # <<>>
    BY <1>11 DEF SmoothPops, KindInv, HeldInv, Smoothed, ShapeInv
  <2>2. smoothing' \in Seq(Numbers)
    BY <1>11, <2>1, Shortened DEF SmoothPops, QueuesInv
  <2>3. ShapeInv' /\ QueuesInv'
    BY <1>11, <2>2 DEF LooperSmooth, SmoothPops, ShapeInv, QueuesInv, Goes, Takes, Places
  <2>4. KindInv' /\ HeldInv'
    BY <1>11, <2>1 DEF LooperSmooth, SmoothPops, ShapeInv, KindInv, HeldInv, Smoothed, Goes, Takes
  <2> QED BY <2>3, <2>4 DEF TypeInv
<1>12. ASSUME NEW t \in Threads, FallsAsleep(t) PROVE TypeInv'
  <2>1. ShapeInv' /\ QueuesInv'
    BY <1>12 DEF FallsAsleep, ShapeInv, QueuesInv, Goes, Places, queues, syncVars
  <2>2. KindInv' /\ HeldInv'
    BY <1>12 DEF FallsAsleep, ShapeInv, KindInv, HeldInv, Smoothed, Goes, queues
  <2> QED BY <2>1, <2>2 DEF TypeInv
<1>13. ASSUME NEW t \in Threads, UsesWord(t) PROVE TypeInv'
  <2>1. t \in {"smooth", "sync"}
    BY <1>13 DEF UsesWord
  <2>2. \E p \in {"taking", "hold", "put", "look", "compare"} :
          /\ at' = [at EXCEPT ![t] = p]
          /\ at[t] \in {"spin", "taking", "hold"}
          /\ t = "smooth" => p \in {"taking", "hold", "put"}
          /\ t = "sync" => \/ p \in {"taking", "hold"}
                           \/ p = "look" /\ held[t] = 0
                           \/ p = "compare" /\ held[t] # 0
    <3>1. \/ at[t] = "spin" /\ at' = [at EXCEPT ![t] = "taking"]
          \/ at[t] = "taking" /\ at' = [at EXCEPT ![t] = "hold"]
          \/ at[t] = "hold" /\ at' = [at EXCEPT ![t] = IF t = "smooth" THEN "put"
                                                     ELSE IF held[t] = 0 THEN "look" ELSE "compare"]
      BY <1>13 DEF UsesWord, Goes
    <3>2. CASE at[t] = "spin" \/ at[t] = "taking"
      <4>1. \E p \in {"taking", "hold"} : at' = [at EXCEPT ![t] = p]
        BY <3>1, <3>2
      <4> QED BY <2>1, <3>2, <4>1
    <3>3. CASE at[t] = "hold" /\ t = "smooth"
      <4>1. at' = [at EXCEPT ![t] = "put"]
        BY <3>1, <3>3
      <4> QED BY <3>3, <4>1
    <3>4. CASE at[t] = "hold" /\ t = "sync"
      <4>1. at' = [at EXCEPT ![t] = IF held[t] = 0 THEN "look" ELSE "compare"]
        BY <3>1, <3>4
      <4>2. CASE held[t] = 0
        <5>1. at' = [at EXCEPT ![t] = "look"]
          BY <4>1, <4>2
        <5> QED BY <3>4, <4>2, <5>1
      <4>3. CASE held[t] # 0
        <5>1. at' = [at EXCEPT ![t] = "compare"]
          BY <4>1, <4>3
        <5> QED BY <3>4, <4>3, <5>1
      <4> QED BY <4>2, <4>3
    <3> QED BY <2>1, <3>1, <3>2, <3>3, <3>4
  <2>3. UNCHANGED <<kind, running, held, frames, queues, mode, modes, memory, changing, driver>>
    BY <1>13 DEF UsesWord
  <2>4. ShapeInv' /\ QueuesInv'
    BY <2>2, <2>3 DEF ShapeInv, QueuesInv, Places, queues
  <2>5. KindInv' /\ HeldInv'
    BY <2>1, <2>2, <2>3 DEF ShapeInv, KindInv, HeldInv, Smoothed, queues
  <2> QED BY <2>4, <2>5 DEF TypeInv
<1>14. ASSUME NEW t \in Threads, Faults(t) PROVE TypeInv'
  BY <1>14 DEF Faults, TypeInv, ShapeInv, QueuesInv, KindInv, HeldInv, Smoothed, queues, syncVars
<1>15. CASE EventThread /\ RunsTask
  <2>1. kind = "video"
    BY <1>15 DEF RunsTask, KindInv, ShapeInv
  <2>t. tasks # <<>> => Head(tasks) \in Numbers /\ Tail(tasks) \in Seq(Numbers)
    BY Shortened DEF QueuesInv
  <2>2. tasks' \in Seq(Numbers) /\ (tasks # <<>> => Head(tasks) \in Numbers)
    BY <1>15, <2>t DEF RunsTask, QueuesInv
  <2>a. at' \in [Threads -> Places]
    BY <1>15 DEF RunsTask, Goes, ShapeInv, Places
  <2>b. held' \in [Threads -> 0 .. MaxFrames] /\ held'["sync"] = held["sync"]
    <3>1. held' = held \/ (tasks # <<>> /\ held' = [held EXCEPT !["event"] = Head(tasks)])
      BY <1>15 DEF RunsTask, Takes
    <3>2. CASE held' = held
      BY <3>2 DEF ShapeInv
    <3>3. CASE tasks # <<>> /\ held' = [held EXCEPT !["event"] = Head(tasks)]
      <4>1. Head(tasks) \in 0 .. MaxFrames
        BY <2>2, <3>3 DEF Numbers
      <4> QED BY <3>3, <4>1 DEF ShapeInv
    <3> QED BY <3>1, <3>2, <3>3
  <2>3. ShapeInv' /\ QueuesInv'
    BY <1>15, <2>2, <2>a, <2>b DEF EventThread, RunsTask, ShapeInv, QueuesInv, syncVars
  <2>4. KindInv' /\ HeldInv'
    BY <1>15, <2>1, <2>2 DEF EventThread, RunsTask, ShapeInv, KindInv, HeldInv, Smoothed, Goes, Takes, Numbers
  <2> QED BY <2>3, <2>4 DEF TypeInv
<1>16. CASE EventThread /\ TaskFeeds
  <2>1. kind = "video" /\ held["event"] \in Numbers
    BY <1>16 DEF TaskFeeds, KindInv, HeldInv, ShapeInv, Numbers
  <2>2. driver' \in Seq(Numbers)
    BY <1>16, <2>1, Appended DEF TaskFeeds, Shuttered, QueuesInv
  <2>3. ShapeInv' /\ QueuesInv'
    BY <1>16, <2>2 DEF EventThread, TaskFeeds, ShapeInv, QueuesInv, Goes, Takes, queues, syncVars, Places
  <2>4. KindInv' /\ HeldInv'
    BY <1>16, <2>1 DEF EventThread, TaskFeeds, ShapeInv, KindInv, HeldInv, Smoothed, Goes, Takes, queues
  <2> QED BY <2>3, <2>4 DEF TypeInv
<1>17. CASE SyncVideoThread
  <2>0. kind = "video"
    BY <1>17 DEF SyncVideoThread, WaitForVideoFrame, SyncVideoFrame, ComparesTimes, SyncFeeds,
      UpdateVideoClock, KindInv,
      ShapeInv
  <2>1. /\ UNCHANGED <<kind, running, frames, buffers, smoothing, tasks, mode, modes, memory, changing>>
    BY <1>17 DEF SyncVideoThread, syncVars
  <2> DEFINE Step(p, h) ==
        /\ at' = [at EXCEPT !["sync"] = p] /\ held' = [held EXCEPT !["sync"] = h]
        /\ p \in Places \ {"off"} /\ h \in 0 .. MaxFrames
        /\ p \in {"check", "compare", "feed"} => h # 0
        /\ p \in {"look", "drowsy", "asleep", "clock", "ended"} => h = 0
        /\ syncing' \in Seq(Numbers) /\ driver' \in Seq(Numbers) /\ Len(syncing') <= MaxSync + 1
        /\ h # 0 => Len(syncing') <= MaxSync
  <2>s. held = [held EXCEPT !["sync"] = held["sync"]]
    BY DEF ShapeInv
  <2>g. ASSUME GivesUp PROVE Step("look", 0)
    BY <2>g DEF GivesUp, Goes, Takes, QueuesInv, Places
  <2>2. \E p \in Places, h \in 0 .. MaxFrames : Step(p, h)
    <3>1. CASE WaitForVideoFrame
      <4>1. CASE ~running["sync"]
        <5>1. Step("ended", 0)
          BY <1>17, <2>s, <3>1, <4>1 DEF WaitForVideoFrame, Goes, QueuesInv, HeldInv, Places
        <5> QED BY <5>1 DEF Places
      <4>2. CASE running["sync"] /\ syncing = <<>>
        <5>1. Step("drowsy", 0)
          BY <1>17, <2>s, <3>1, <4>2 DEF WaitForVideoFrame, Goes, QueuesInv, HeldInv, Places
        <5> QED BY <5>1 DEF Places
      <4>3. CASE running["sync"] /\ syncing # <<>>
        <5>1. Head(syncing) \in Numbers /\ Tail(syncing) \in Seq(Numbers) /\ Len(Tail(syncing)) <= MaxSync
          BY <4>3, Shortened DEF QueuesInv
        <5>2. /\ at' = [at EXCEPT !["sync"] = "check"] /\ held' = [held EXCEPT !["sync"] = Head(syncing)]
              /\ syncing' = Tail(syncing) /\ UNCHANGED driver
          BY <3>1, <4>3 DEF WaitForVideoFrame, Goes, Takes
        <5>3. Step("check", Head(syncing))
          BY <5>1, <5>2 DEF QueuesInv, Places, Numbers
        <5> QED BY <5>1, <5>3 DEF Places, Numbers
      <4> QED BY <4>1, <4>2, <4>3
    <3>2. CASE SyncVideoFrame
      <4>1. CASE memory.ok
        <5>1. Step("spin", held["sync"])
          BY <1>17, <2>s, <3>2, <4>1 DEF SyncVideoFrame, Goes, QueuesInv, HeldInv, Places, ShapeInv
        <5> QED BY <5>1 DEF Places
      <4> QED BY <2>g, <3>2, <4>1 DEF SyncVideoFrame, Places
    <3>3. CASE ComparesTimes
      <4>1. CASE Goes("sync", "feed") /\ UNCHANGED <<held, syncing, driver, dropped>>
        <5>1. Step("feed", held["sync"])
          BY <2>s, <3>3, <4>1 DEF ComparesTimes, Goes, QueuesInv, HeldInv, Places, ShapeInv
        <5> QED BY <5>1 DEF Places
      <4>2. CASE /\ Goes("sync", "look") /\ Takes("sync", 0)
                 /\ syncing' = <<held["sync"]>> \o syncing /\ UNCHANGED driver
        <5>1. held["sync"] # 0
          BY <3>3 DEF ComparesTimes, HeldInv
        <5>2. Step("look", 0)
          BY <1>h, <4>2, <5>1, PutBack DEF Goes, Takes, QueuesInv, Places
        <5> QED BY <5>2 DEF Places
      <4> QED BY <2>g, <3>3, <4>1, <4>2 DEF ComparesTimes, Places
    <3>4. CASE SyncFeeds
      <4>1. CASE Shuttered("sync") /\ Goes("sync", "clock") /\ Takes("sync", 0) /\ UNCHANGED syncing
        <5>1. held["sync"] # 0
          BY <3>4 DEF SyncFeeds, HeldInv
        <5>2. Step("clock", 0)
          BY <1>h, <4>1, <5>1, Appended DEF Shuttered, Goes, Takes, QueuesInv, Places
        <5> QED BY <5>2 DEF Places
      <4> QED BY <2>g, <3>4, <4>1 DEF SyncFeeds, Places
    <3>5. CASE UpdateVideoClock
      <4>1. held["sync"] = 0
        BY <3>5 DEF UpdateVideoClock, HeldInv
      <4>3. /\ (at' = [at EXCEPT !["sync"] = "spin"] \/ at' = [at EXCEPT !["sync"] = "look"])
            /\ UNCHANGED <<held, syncing, driver>>
        BY <3>5 DEF UpdateVideoClock, Goes
      <4>2. Step("spin", 0) \/ Step("look", 0)
        BY <2>s, <4>1, <4>3 DEF QueuesInv, Places
      <4> QED BY <4>2 DEF Places
    <3> QED BY <1>17, <3>1, <3>2, <3>3, <3>4, <3>5 DEF SyncVideoThread
  <2>3. PICK p \in Places, h \in 0 .. MaxFrames : Step(p, h)
    BY <2>2
  <2>4. ShapeInv' /\ QueuesInv'
    BY <2>1, <2>3 DEF ShapeInv, QueuesInv
  <2>5. KindInv' /\ HeldInv'
    BY <2>0, <2>1, <2>3 DEF ShapeInv, KindInv, HeldInv, Smoothed
  <2> QED BY <2>4, <2>5 DEF TypeInv
<1>18. CASE UpdateBegins
  <2>1. modes' \in 0 .. MaxModes /\ changing' \in 0 .. NoMode
    BY <1>18 DEF UpdateBegins, ShapeInv, NoMode
  <2>2. ShapeInv' /\ QueuesInv'
    BY <1>18, <1>m, <2>1 DEF UpdateBegins, ShapeInv, QueuesInv, queues
  <2>3. KindInv' /\ HeldInv'
    BY <1>18 DEF UpdateBegins, KindInv, HeldInv, Smoothed, queues
  <2> QED BY <2>2, <2>3 DEF TypeInv
<1>19. CASE UpdateEnds
  <2>1. mode' \in 0 .. MaxModes /\ changing' \in 0 .. NoMode
    BY <1>19 DEF UpdateEnds, ShapeInv, NoMode
  <2>2. ShapeInv' /\ QueuesInv'
    BY <1>19, <2>1 DEF UpdateEnds, ShapeInv, QueuesInv, queues
  <2>3. KindInv' /\ HeldInv'
    BY <1>19 DEF UpdateEnds, KindInv, HeldInv, Smoothed, queues
  <2> QED BY <2>2, <2>3 DEF TypeInv
<1>20. CASE Stop
  <2>1. UNCHANGED <<kind, held, frames, buffers, tasks, syncing, mode, modes, changing, driver>>
    BY <1>20 DEF Stop
  <2>2. \A t \in Threads : (at'[t] = at[t] \/ (at[t] = "asleep" /\ at'[t] = "look"))
    BY <1>20, <1>w DEF Stop, StopBegins, StopSnap, StopSmooth, StopRest, Tells, Wakes, Joined, Goes, ShapeInv
  <2>3. at' \in [Threads -> Places]
    BY <1>20, <1>w DEF Stop, StopBegins, StopSnap, StopSmooth, StopRest, Tells, Wakes, Joined, Goes, ShapeInv
  <2>4. running' \in [Threads -> BOOLEAN] /\ memory' \in [of : 0 .. MaxModes, ok : BOOLEAN]
    BY <1>20, <1>m DEF Stop, StopBegins, StopSnap, StopSmooth, StopRest, Tells, Wakes, ShapeInv
  <2>5. smoothing' = smoothing \/ (smoothing' = <<>> /\ at["smooth"] = "ended")
    BY <1>20 DEF Stop, StopBegins, StopSnap, StopSmooth, StopRest, Tells, Wakes, Joined
  <2>6. ShapeInv' /\ QueuesInv'
    BY <2>1, <2>3, <2>4, <2>5, NoElements DEF ShapeInv, QueuesInv
  <2>7. KindInv' /\ HeldInv'
    BY <2>1, <2>2, <2>5 DEF KindInv, HeldInv, Smoothed
  <2> QED BY <2>6, <2>7 DEF TypeInv
<1>21. CASE UNCHANGED vars
  BY <1>21 DEF vars, TypeInv, ShapeInv, QueuesInv, KindInv, HeldInv, Smoothed, queues, syncVars
<1> QED
  BY <1>1, <1>2, <1>3, <1>4, <1>5, <1>6, <1>7, <1>8, <1>9, <1>10, <1>11, <1>12, <1>13, <1>14, <1>15, <1>16, <1>17,
     <1>18, <1>19, <1>20, <1>21
  DEF Next, Runs, FeedStream, LooperSnapShot, LooperSmooth, EventThread

(* The frames, modes and threads are those there have been, and no queue   *)
(* outgrows its limit: the photos theirs, the sync queue its own by one.   *)
THEOREM TypeCorrect == Spec => []TypeOK
<1>1. TypeInv => TypeOK
  BY DEF TypeInv, ShapeInv, QueuesInv, TypeOK
<1>2. QED BY InitTypes, TypesStep, <1>1, PTL DEF Spec

----------------------------------------------------------------------------
(* No frame is lost: one that has left the queue it was fed to is with the *)
(* HDF, further on, or given up.  A thread pops the frame it has fed,      *)
(* unless a full queue has dropped that one already.                       *)
Safe == dropped \union Elements(driver) \union Elements(tasks) \union Elements(syncing)
          \union {held["event"], held["sync"]}
LossInv ==
  /\ stopping = "no" =>
       1 .. frames \subseteq Safe \union Elements(buffers) \union Elements(smoothing) \/ "overtaken" \in causes
  /\ at["smooth"] = "pop" => held["smooth"] \in Safe
  /\ at["snap"] \in {"feed", "pop"} => held["snap"] = Head(buffers) \/ "overtaken" \in causes
  /\ at["snap"] = "pop" => held["snap"] \in Elements(driver)

(* Nothing has been fed yet.                                               *)
LEMMA InitLoss == Init => LossInv
  BY BoundsAssumption DEF Init, LossInv, Threads

(* Each step hands every frame on, or gives it up for a reason it records. *)
LEMMA LossStep == TypeInv /\ LossInv /\ [Next]_vars => LossInv'
<1> SUFFICES ASSUME TypeInv, LossInv, [Next]_vars PROVE LossInv'
  OBVIOUS
<1> USE SizesAssumption, BoundsAssumption
<1>s. ShapeInv /\ QueuesInv /\ KindInv /\ HeldInv
  BY DEF TypeInv
<1>t. "snap" \in Threads /\ "smooth" \in Threads /\ "event" \in Threads /\ "sync" \in Threads
  BY DEF Threads
<1>a. at \in [Threads -> Places] /\ held \in [Threads -> 0 .. MaxFrames]
  BY <1>s DEF ShapeInv
<1>w. \A t \in {"snap", "smooth", "sync"} : Wake(t) = at[t] \/ (at[t] = "asleep" /\ Wake(t) = "look")
  BY DEF Wake
<1> USE <1>t, <1>a
<1>1. CASE Start
  <2>1. \A t \in Threads : at'[t] \in {"look", "off"}
    BY <1>1 DEF Start
  <2> QED BY <1>1, <2>1 DEF Start, LossInv, Safe, queues
<1>2. CASE FeedStream /\ FeedPhoto
  <2>1. frames + 1 \in Numbers /\ frames' = frames + 1 /\ 1 .. frames' = 1 .. frames \union {frames + 1}
    BY <1>2, <1>s DEF FeedStream, FeedPhoto, ShapeInv, Numbers
  <2>2. /\ Elements(buffers') \subseteq Elements(buffers) \union {frames + 1} /\ frames + 1 \in Elements(buffers')
        /\ Elements(buffers) \subseteq Elements(buffers') \union dropped' /\ dropped \subseteq dropped'
        /\ \/ at["snap"] \in {"feed", "pop"} => "overtaken" \in causes'
           \/ buffers # <<>> => Head(buffers') = Head(buffers)
    <3>1. CASE Len(buffers) >= MaxPhotos
      <4>1. buffers # <<>>
        BY <1>s, <3>1, NoElements DEF QueuesInv
      <4>2. /\ buffers' = Append(Tail(buffers), frames + 1) /\ dropped' = dropped \union {Head(buffers)}
            /\ at["snap"] \in {"feed", "pop"} => "overtaken" \in causes'
        BY <1>2, <3>1 DEF FeedPhoto
      <4>3. Tail(buffers) \in Seq(Numbers) /\ Elements(buffers) = Elements(Tail(buffers)) \union {Head(buffers)}
        BY <4>1, <1>s, Shortened DEF QueuesInv
      <4>4. Elements(buffers') = Elements(Tail(buffers)) \union {frames + 1}
        BY <4>2, <4>3, <2>1, Appended
      <4> QED BY <4>2, <4>3, <4>4
    <3>2. CASE ~(Len(buffers) >= MaxPhotos)
      <4>1. buffers' = Append(buffers, frames + 1) /\ dropped' = dropped
        BY <1>2, <3>2 DEF FeedPhoto
      <4> QED BY <4>1, <2>1, <1>s, Appended DEF QueuesInv
    <3> QED BY <3>1, <3>2
  <2>3. at' = [at EXCEPT !["snap"] = Wake("snap")] /\ causes \subseteq causes'
    BY <1>2 DEF FeedPhoto, Goes
  <2>4. UNCHANGED <<held, tasks, syncing, smoothing, driver, stopping>>
    BY <1>2 DEF FeedStream, FeedPhoto
  <2>5. at["snap"] \in {"feed", "pop"} => buffers # <<>>
    BY <1>s DEF HeldInv
  <2>6. Safe \subseteq Safe'
    BY <2>2, <2>4 DEF Safe
  <2>7. Wake("snap") = at["snap"] \/ (at["snap"] = "asleep" /\ Wake("snap") = "look")
    BY <1>w
  <2>8. /\ at'["snap"] \in {"feed", "pop"} => at'["snap"] = at["snap"]
        /\ at'["smooth"] = at["smooth"]
    BY <2>3, <2>7
  <2>9. at'["snap"] \in {"feed", "pop"} => held'["snap"] = Head(buffers') \/ "overtaken" \in causes'
    BY <2>2, <2>3, <2>4, <2>5, <2>8 DEF LossInv
  <2>10. stopping' = "no" =>
           1 .. frames' \subseteq Safe' \union Elements(buffers') \union Elements(smoothing')
             \/ "overtaken" \in causes'
    <3>1. CASE "overtaken" \in causes
      BY <3>1, <2>3
    <3>2. CASE stopping = "no" /\ "overtaken" \notin causes
      <4>1. 1 .. frames \subseteq Safe \union Elements(buffers) \union Elements(smoothing)
        BY <3>2 DEF LossInv
      <4>2. Elements(buffers) \subseteq Elements(buffers') \union Safe'
        BY <2>2 DEF Safe
      <4> QED BY <4>1, <4>2, <2>1, <2>2, <2>4, <2>6
    <3> QED BY <3>1, <3>2, <2>4
  <2> QED BY <2>4, <2>6, <2>8, <2>9, <2>10 DEF LossInv
<1>3. CASE FeedStream /\ PushData
  <2>1. frames + 1 \in Numbers /\ frames' = frames + 1 /\ 1 .. frames' = 1 .. frames \union {frames + 1}
    BY <1>3, <1>s DEF FeedStream, PushData, ShapeInv, Numbers
  <2>2. Elements(smoothing') = Elements(smoothing) \union {frames + 1}
    BY <1>3, <1>s, <2>1, Appended DEF PushData, QueuesInv
  <2>3. at' = [at EXCEPT !["smooth"] = Wake("smooth")]
    BY <1>3 DEF PushData, Goes
  <2>4. UNCHANGED <<held, tasks, syncing, buffers, driver, stopping, dropped, causes>>
    BY <1>3 DEF FeedStream, PushData
  <2>6. Safe = Safe'
    BY <2>4 DEF Safe
  <2> QED BY <1>w, <2>1, <2>2, <2>3, <2>4, <2>6 DEF LossInv
<1>4. CASE LooperSnapShot /\ SnapLooks
  <2>1. /\ UNCHANGED <<buffers, smoothing, tasks, syncing, driver, dropped, causes, stopping, frames>>
        /\ \/ \E p \in {"ended", "asleep"} : at' = [at EXCEPT !["snap"] = p] /\ held' = held
           \/ at' = [at EXCEPT !["snap"] = "feed"] /\ held' = [held EXCEPT !["snap"] = Head(buffers)]
    BY <1>4 DEF LooperSnapShot, SnapLooks, Goes, Takes, queues
  <2>2. Safe' = Safe
    BY <2>1 DEF Safe
  <2> QED BY <2>1, <2>2 DEF LossInv
<1>5. CASE LooperSnapShot /\ SnapFeeds
  <2>0. held["snap"] \in Numbers
    BY <1>5, <1>s DEF SnapFeeds, HeldInv, Numbers
  <2>1. /\ UNCHANGED <<held, buffers, smoothing, tasks, syncing, dropped, causes, stopping, frames>>
        /\ \/ driver' = Append(driver, held["snap"]) /\ at' = [at EXCEPT !["snap"] = "pop"]
           \/ driver' = driver /\ at' = [at EXCEPT !["snap"] = "look"]
        /\ at["snap"] = "feed"
    BY <1>5 DEF LooperSnapShot, SnapFeeds, Goes, Shuttered, queues
  <2>2. Elements(Append(driver, held["snap"])) = Elements(driver) \union {held["snap"]}
    BY <2>0, <1>s, Appended DEF QueuesInv
  <2>3. Safe \subseteq Safe'
    BY <2>1, <2>2 DEF Safe
  <2> QED BY <2>1, <2>2, <2>3 DEF LossInv
<1>6. CASE LooperSnapShot /\ SnapPops
  <2>1. /\ UNCHANGED <<driver, smoothing, tasks, syncing, dropped, causes, stopping, frames>>
        /\ at' = [at EXCEPT !["snap"] = "look"] /\ held' = [held EXCEPT !["snap"] = 0]
        /\ at["snap"] = "pop" /\ buffers' = Tail(buffers) /\ buffers # <<>>
    BY <1>6, <1>s DEF LooperSnapShot, SnapPops, Goes, Takes, HeldInv
  <2>2. Elements(buffers) = Elements(buffers') \union {Head(buffers)}
    BY <2>1, <1>s, Shortened DEF QueuesInv
  <2>3. Safe' = Safe
    BY <2>1 DEF Safe
  <2>4. Head(buffers) \in Safe \/ "overtaken" \in causes
    BY <2>1 DEF LossInv, Safe
  <2> QED BY <2>1, <2>2, <2>3, <2>4 DEF LossInv
<1>7. CASE LooperSmooth /\ (SmoothLooks \/ SmoothFeeding)
  <2>1. /\ UNCHANGED <<driver, buffers, smoothing, tasks, syncing, dropped, causes, stopping, frames>>
        /\ \E p \in {"ended", "drowsy", "pace", "notify"} : at' = [at EXCEPT !["smooth"] = p]
        /\ held' = held \/ held' = [held EXCEPT !["smooth"] = Head(smoothing)]
    BY <1>7 DEF LooperSmooth, SmoothLooks, SmoothFeeding, Goes, Takes, queues
  <2>2. Safe' = Safe
    BY <2>1 DEF Safe
  <2> QED BY <2>1, <2>2 DEF LossInv
<1>8. CASE LooperSmooth /\ OnSmoothFinished
  <2>0. held["smooth"] \in Numbers
    <3>1. smoothing # <<>> /\ held["smooth"] = Head(smoothing)
      BY <1>8, <1>s DEF OnSmoothFinished, HeldInv, Smoothed
    <3> QED BY <3>1, <1>s, Shortened DEF QueuesInv
  <2>1. /\ UNCHANGED <<held, driver, buffers, smoothing, syncing, dropped, causes, stopping, frames>>
        /\ \/ at' = [at EXCEPT !["smooth"] = "map"] /\ tasks' = tasks
           \/ at' = [at EXCEPT !["smooth"] = "pop"] /\ tasks' = Append(tasks, held["smooth"])
    BY <1>8 DEF LooperSmooth, OnSmoothFinished, Goes
  <2>2. Elements(Append(tasks, held["smooth"])) = Elements(tasks) \union {held["smooth"]}
    BY <2>0, <1>s, Appended DEF QueuesInv
  <2>3. Safe \subseteq Safe' /\ (at'["smooth"] = "pop" => held["smooth"] \in Safe')
    BY <2>1, <2>2 DEF Safe
  <2> QED BY <2>1, <2>3 DEF LossInv
<1>9. CASE LooperSmooth /\ MapsMemory
  <2>1. /\ UNCHANGED <<held, driver, buffers, smoothing, tasks, syncing, causes, stopping, frames>>
        /\ \/ at' = [at EXCEPT !["smooth"] = "spin"] /\ dropped' = dropped
           \/ at' = [at EXCEPT !["smooth"] = "pop"] /\ dropped' = dropped \union {held["smooth"]}
    BY <1>9 DEF LooperSmooth, MapsMemory, Goes, queues
  <2>3. Safe \subseteq Safe' /\ (at'["smooth"] = "pop" => held["smooth"] \in Safe')
    BY <2>1 DEF Safe
  <2> QED BY <2>1, <2>3 DEF LossInv
<1>10. CASE LooperSmooth /\ AddSyncBuffer
  <2>0. held["smooth"] \in Numbers
    <3>1. smoothing # <<>> /\ held["smooth"] = Head(smoothing)
      BY <1>10, <1>s DEF AddSyncBuffer, HeldInv, Smoothed
    <3> QED BY <3>1, <1>s, Shortened DEF QueuesInv
  <2>1. /\ UNCHANGED <<held, driver, buffers, smoothing, tasks, causes, stopping, frames>>
        /\ at' = [at EXCEPT !["smooth"] = "pop", !["sync"] = Wake("sync")]
    BY <1>10 DEF LooperSmooth, AddSyncBuffer
  <2>2. /\ Elements(syncing) \subseteq Elements(syncing') \union dropped' /\ dropped \subseteq dropped'
        /\ held["smooth"] \in Elements(syncing')
    <3>1. CASE Len(syncing) >= MaxSync
      <4>1. syncing # <<>>
        BY <1>s, <3>1, NoElements DEF QueuesInv
      <4>2. /\ syncing' = Append(Tail(syncing), held["smooth"]) /\ dropped' = dropped \union {Head(syncing)}
        BY <1>10, <3>1 DEF AddSyncBuffer
      <4>3. Tail(syncing) \in Seq(Numbers) /\ Elements(syncing) = Elements(Tail(syncing)) \union {Head(syncing)}
        BY <4>1, <1>s, Shortened DEF QueuesInv
      <4>4. Elements(syncing') = Elements(Tail(syncing)) \union {held["smooth"]}
        BY <4>2, <4>3, <2>0, Appended
      <4> QED BY <4>2, <4>3, <4>4
    <3>2. CASE ~(Len(syncing) >= MaxSync)
      <4>1. syncing' = Append(syncing, held["smooth"]) /\ dropped' = dropped
        BY <1>10, <3>2 DEF AddSyncBuffer
      <4> QED BY <4>1, <2>0, <1>s, Appended DEF QueuesInv
    <3> QED BY <3>1, <3>2
  <2>3. Safe \subseteq Safe' /\ held["smooth"] \in Safe'
    BY <2>1, <2>2 DEF Safe
  <2> QED BY <2>1, <2>3 DEF LossInv
<1>11. CASE LooperSmooth /\ SmoothPops
  <2>1. /\ UNCHANGED <<driver, buffers, tasks, syncing, dropped, causes, stopping, frames>>
        /\ at' = [at EXCEPT !["smooth"] = "look"] /\ held' = [held EXCEPT !["smooth"] = 0]
        /\ at["smooth"] = "pop" /\ smoothing' = Tail(smoothing)
    BY <1>11 DEF LooperSmooth, SmoothPops, Goes, Takes
  <2>2. smoothing # <<>> /\ held["smooth"] = Head(smoothing)
    BY <2>1, <1>s DEF HeldInv, Smoothed
  <2>3. Elements(smoothing) = Elements(smoothing') \union {Head(smoothing)}
    BY <2>1, <2>2, <1>s, Shortened DEF QueuesInv
  <2>4. Safe' = Safe
    BY <2>1 DEF Safe
  <2> QED BY <2>1, <2>2, <2>3, <2>4 DEF LossInv
<1>12. ASSUME NEW t \in Threads, FallsAsleep(t) PROVE LossInv'
  <2>1. /\ at' = [at EXCEPT ![t] = "asleep"]
        /\ UNCHANGED <<held, driver, buffers, smoothing, tasks, syncing, dropped, causes, stopping, frames>>
    BY <1>12 DEF FallsAsleep, Goes, queues
  <2>2. Safe' = Safe
    BY <2>1 DEF Safe
  <2> QED BY <2>1, <2>2 DEF LossInv
<1>13. ASSUME NEW t \in Threads, UsesWord(t) PROVE LossInv'
  <2>1. /\ \E p \in {"taking", "hold", "put", "look", "compare"} : at' = [at EXCEPT ![t] = p]
        /\ t # "snap"
        /\ UNCHANGED <<held, driver, buffers, smoothing, tasks, syncing, dropped, causes, stopping, frames>>
    BY <1>13 DEF UsesWord, Goes, queues
  <2>2. Safe' = Safe
    BY <2>1 DEF Safe
  <2> QED BY <2>1, <2>2 DEF LossInv
<1>14. ASSUME NEW t \in Threads, Faults(t) PROVE LossInv'
  <2>1. /\ causes \subseteq causes'
        /\ UNCHANGED <<at, held, driver, buffers, smoothing, tasks, syncing, dropped, stopping, frames>>
    BY <1>14 DEF Faults, queues
  <2>2. Safe' = Safe
    BY <2>1 DEF Safe
  <2> QED BY <2>1, <2>2 DEF LossInv
<1>15. CASE EventThread /\ RunsTask
  <2>1. /\ UNCHANGED <<driver, buffers, smoothing, syncing, dropped, causes, stopping, frames>>
        /\ \/ at' = [at EXCEPT !["event"] = "ended"] /\ held' = held /\ tasks' = tasks
           \/ /\ at' = [at EXCEPT !["event"] = "feed"] /\ held' = [held EXCEPT !["event"] = Head(tasks)]
              /\ tasks' = Tail(tasks) /\ tasks # <<>>
        /\ at["event"] = "look"
    BY <1>15 DEF EventThread, RunsTask, Goes, Takes
  <2>2. tasks # <<>> => Elements(tasks) = Elements(Tail(tasks)) \union {Head(tasks)}
    BY <1>s, Shortened DEF QueuesInv
  <2>3. held["event"] = 0
    BY <2>1, <1>s DEF HeldInv
  <2>4. Safe \subseteq Safe' \union {0}
    BY <2>1, <2>2, <2>3 DEF Safe
  <2>5. at["smooth"] = "pop" => held["smooth"] # 0
    <3>1. at["smooth"] = "pop" => smoothing # <<>> /\ held["smooth"] = Head(smoothing)
      BY <1>s DEF HeldInv, Smoothed
    <3> QED BY <3>1, <1>s, Shortened DEF QueuesInv, Numbers
  <2>6. at'["smooth"] = at["smooth"] /\ at'["snap"] = at["snap"] /\ held'["smooth"] = held["smooth"]
        /\ held'["snap"] = held["snap"]
    BY <2>1
  <2>7. 0 \notin 1 .. frames
    BY <1>s DEF ShapeInv
  <2> QED BY <2>1, <2>4, <2>5, <2>6, <2>7 DEF LossInv
<1>16. CASE EventThread /\ TaskFeeds
  <2>0. held["event"] \in Numbers
    BY <1>16, <1>s DEF TaskFeeds, HeldInv, Numbers
  <2>1. /\ UNCHANGED <<tasks, buffers, smoothing, syncing, causes, stopping, frames>>
        /\ at' = [at EXCEPT !["event"] = "look"] /\ held' = [held EXCEPT !["event"] = 0]
        /\ \/ driver' = Append(driver, held["event"]) /\ dropped' = dropped
           \/ driver' = driver /\ dropped' = dropped \union {held["event"]}
    BY <1>16 DEF EventThread, TaskFeeds, Goes, Takes, Shuttered, queues
  <2>2. Elements(Append(driver, held["event"])) = Elements(driver) \union {held["event"]}
    BY <2>0, <1>s, Appended DEF QueuesInv
  <2>3. Safe \subseteq Safe' /\ Elements(driver) \subseteq Elements(driver')
    BY <2>1, <2>2 DEF Safe
  <2>6. at'["smooth"] = at["smooth"] /\ at'["snap"] = at["snap"] /\ held'["smooth"] = held["smooth"]
        /\ held'["snap"] = held["snap"]
    BY <2>1
  <2> QED BY <2>1, <2>3, <2>6 DEF LossInv
<1>17. CASE SyncVideoThread
  <2>1. UNCHANGED <<tasks, buffers, smoothing, causes, stopping, frames>>
    BY <1>17 DEF SyncVideoThread
  <2>2. /\ \E p \in Places : at' = [at EXCEPT !["sync"] = p]
        /\ held' = held \/ \E h \in 0 .. MaxFrames : held' = [held EXCEPT !["sync"] = h]
    <3>1. syncing # <<>> => Head(syncing) \in 0 .. MaxFrames
      BY <1>s, Shortened DEF QueuesInv, Numbers
    <3> QED
      BY <1>17, <3>1 DEF SyncVideoThread, WaitForVideoFrame, SyncVideoFrame, ComparesTimes, SyncFeeds,
         UpdateVideoClock,
         GivesUp, Goes, Takes, Places
  <2>3. /\ dropped \subseteq dropped' /\ Elements(driver) \subseteq Elements(driver')
        /\ Elements(syncing) \union {held["sync"]}
             \subseteq Elements(syncing') \union {held'["sync"], 0} \union dropped' \union Elements(driver')
    <3>g. ASSUME GivesUp PROVE <2>3
      BY <3>g DEF GivesUp
    <3>1. CASE WaitForVideoFrame
      <4>1. held["sync"] = 0
        BY <3>1, <1>s DEF WaitForVideoFrame, HeldInv
      <4>2. syncing # <<>> => Elements(syncing) = Elements(Tail(syncing)) \union {Head(syncing)}
        BY <1>s, Shortened DEF QueuesInv
      <4> QED BY <3>1, <4>1, <4>2 DEF WaitForVideoFrame, Takes
    <3>2. CASE SyncVideoFrame
      BY <3>g, <3>2 DEF SyncVideoFrame
    <3>3. CASE ComparesTimes
      <4>1. held["sync"] \in Numbers
        BY <3>3, <1>s DEF ComparesTimes, HeldInv, Numbers
      <4>2. Elements(<<held["sync"]>> \o syncing) = Elements(syncing) \union {held["sync"]}
        BY <4>1, <1>s, PutBack DEF QueuesInv
      <4>3. CASE syncing' = <<held["sync"]>> \o syncing /\ UNCHANGED <<driver, dropped>>
        BY <4>2, <4>3
      <4> QED BY <3>g, <3>3, <4>3 DEF ComparesTimes
    <3>4. CASE SyncFeeds
      <4>1. held["sync"] \in Numbers
        BY <3>4, <1>s DEF SyncFeeds, HeldInv, Numbers
      <4>2. Elements(Append(driver, held["sync"])) = Elements(driver) \union {held["sync"]}
        BY <4>1, <1>s, Appended DEF QueuesInv
      <4>3. CASE Shuttered("sync") /\ UNCHANGED <<syncing, dropped>>
        BY <4>2, <4>3 DEF Shuttered
      <4> QED BY <3>g, <3>4, <4>3 DEF SyncFeeds
    <3>5. CASE UpdateVideoClock
      BY <3>5 DEF UpdateVideoClock
    <3> QED BY <1>17, <3>1, <3>2, <3>3, <3>4, <3>5 DEF SyncVideoThread
  <2>4. at'["smooth"] = at["smooth"] /\ at'["snap"] = at["snap"] /\ held'["smooth"] = held["smooth"]
        /\ held'["snap"] = held["snap"] /\ held'["event"] = held["event"]
    BY <2>2
  <2>5. Safe \subseteq Safe' \union {0}
    BY <2>1, <2>3, <2>4 DEF Safe
  <2>6. at["smooth"] = "pop" => held["smooth"] # 0
    <3>1. at["smooth"] = "pop" => smoothing # <<>> /\ held["smooth"] = Head(smoothing)
      BY <1>s DEF HeldInv, Smoothed
    <3> QED BY <3>1, <1>s, Shortened DEF QueuesInv, Numbers
  <2>7. 0 \notin 1 .. frames
    BY <1>s DEF ShapeInv
  <2> QED BY <2>1, <2>3, <2>4, <2>5, <2>6, <2>7 DEF LossInv
<1>18. CASE UpdateBegins \/ UpdateEnds
  <2>1. /\ causes \subseteq causes'
        /\ UNCHANGED <<at, held, driver, buffers, smoothing, tasks, syncing, dropped, stopping, frames>>
    BY <1>18 DEF UpdateBegins, UpdateEnds, queues
  <2>2. Safe' = Safe
    BY <2>1 DEF Safe
  <2> QED BY <2>1, <2>2 DEF LossInv
<1>19. CASE Stop
  <2>1. UNCHANGED <<held, frames, buffers, tasks, syncing, driver, dropped>>
    BY <1>19 DEF Stop
  <2>2. \A t \in Threads : (at'[t] = at[t] \/ at'[t] = "look")
    BY <1>19, <1>w DEF Stop, StopBegins, StopSnap, StopSmooth, StopRest, Tells, Wakes, Joined, Goes
  <2>3. stopping' # "no"
    BY <1>19 DEF Stop, StopBegins, StopSnap, StopSmooth, StopRest, Tells, Wakes, Joined
  <2>4. causes \subseteq causes'
    BY <1>19 DEF Stop, StopBegins, StopSnap, StopSmooth, StopRest, Tells, Wakes, Joined
  <2>5. Safe' = Safe
    BY <2>1 DEF Safe
  <2> QED BY <2>1, <2>2, <2>3, <2>4, <2>5 DEF LossInv
<1>20. CASE UNCHANGED vars
  BY <1>20 DEF vars, LossInv, Safe, queues
<1> QED
  BY <1>1, <1>2, <1>3, <1>4, <1>5, <1>6, <1>7, <1>8, <1>9, <1>10, <1>11, <1>12, <1>13, <1>14, <1>15, <1>16, <1>17,
     <1>18, <1>19, <1>20
  DEF Next, Runs, FeedStream, LooperSnapShot, LooperSmooth, EventThread

----------------------------------------------------------------------------
(* The order of the frames.  Past are those beyond the smoother: each is   *)
(* older than what the smoother still has.  A thread that feeds has a      *)
(* frame newer than what the HDF has and older than what waits, as long as *)
(* no change of mode has found frames under way: until then either the     *)
(* tasks or the sync queue are empty.                                      *)
Past == Elements(driver) \union Elements(tasks) \union Elements(syncing)
          \union ({held["event"], held["sync"]} \ {0})
FedInv == \A x \in Past \union Elements(buffers) \union Elements(smoothing) \union {held["snap"]} : x <= frames
SmoothInv ==
  /\ Sorted(smoothing)
  /\ \A x \in Past, s \in Elements(smoothing) : x < s \/ (at["smooth"] = "pop" /\ x <= s)
SnapInv ==
  /\ Sorted(buffers)
  /\ at["snap"] \notin {"feed", "pop"} => \A x \in Elements(driver), b \in Elements(buffers) : x < b
  /\ at["snap"] = "feed" => /\ \A x \in Elements(driver) : x < held["snap"]
                            /\ \A b \in Elements(buffers) : held["snap"] <= b
  /\ at["snap"] = "pop" => \A x \in Elements(driver), b \in Elements(buffers) : x <= b
LineInv ==
  /\ mode = 0 => syncing = <<>> /\ held["sync"] = 0
  /\ mode # 0 => tasks = <<>> /\ held["event"] = 0
  /\ Sorted(driver) /\ Sorted(tasks) /\ Sorted(syncing)
  /\ \A x \in Elements(driver), y \in Elements(tasks) \union Elements(syncing) : x < y
  /\ \A t \in {"event", "sync"} : held[t] # 0 =>
       /\ \A x \in Elements(driver) : x < held[t]
       /\ \A y \in Elements(tasks) \union Elements(syncing) : held[t] < y
PathInv == (WritingPts => mode # 0) /\ ("switched" \in causes \/ LineInv)
OrderInv == FedInv /\ SmoothInv /\ SnapInv /\ PathInv

(* Nothing has been fed yet, so nothing is out of order.                   *)
LEMMA InitOrder == Init => OrderInv
  BY NoElements, BoundsAssumption
  DEF Init, OrderInv, FedInv, SmoothInv, SnapInv, PathInv, LineInv, Past, WritingPts, Threads

(* Where frames and what the threads have in their hands lie in number.    *)
LEMMA Ranges ==
  ASSUME TypeInv
  PROVE  /\ Elements(driver) \subseteq Numbers /\ Elements(tasks) \subseteq Numbers
         /\ Elements(syncing) \subseteq Numbers /\ Elements(buffers) \subseteq Numbers
         /\ Elements(smoothing) \subseteq Numbers /\ Past \subseteq Numbers
         /\ frames \in Nat /\ Numbers \subseteq Nat \ {0}
         /\ \A t \in Threads : held[t] \in Nat
<1> USE BoundsAssumption
<1>1. \A q \in Seq(Numbers) : Elements(q) \subseteq Numbers
  BY DEF Elements
<1>2. ShapeInv /\ QueuesInv
  BY DEF TypeInv
<1>3. held["event"] \in 0 .. MaxFrames /\ held["sync"] \in 0 .. MaxFrames
  BY <1>2 DEF ShapeInv, Threads
<1>4. {held["event"], held["sync"]} \ {0} \subseteq Numbers
  BY <1>3 DEF Numbers
<1>5. /\ Elements(driver) \subseteq Numbers /\ Elements(tasks) \subseteq Numbers
      /\ Elements(syncing) \subseteq Numbers /\ Elements(buffers) \subseteq Numbers
      /\ Elements(smoothing) \subseteq Numbers
  BY <1>1, <1>2 DEF QueuesInv
<1> QED BY <1>2, <1>4, <1>5 DEF Past, Numbers, ShapeInv

(* Each step keeps the order, by what it moves: nothing, a frame beyond    *)
(* the smoother, or one into, out of or past a queue.                      *)
LEMMA OrderStep == TypeInv /\ TypeInv' /\ OrderInv /\ [Next]_vars => OrderInv'
<1> SUFFICES ASSUME TypeInv, TypeInv', OrderInv, [Next]_vars PROVE OrderInv'
  OBVIOUS
<1> USE SizesAssumption, BoundsAssumption
<1>s. ShapeInv /\ QueuesInv /\ KindInv /\ HeldInv /\ ShapeInv' /\ KindInv' /\ HeldInv'
  BY DEF TypeInv
<1>t. "snap" \in Threads /\ "smooth" \in Threads /\ "event" \in Threads /\ "sync" \in Threads
  BY DEF Threads
<1>a. /\ at \in [Threads -> Places] /\ held \in [Threads -> 0 .. MaxFrames]
      /\ at' \in [Threads -> Places] /\ held' \in [Threads -> 0 .. MaxFrames]
  BY <1>s DEF ShapeInv
<1>r. /\ Elements(driver) \subseteq Numbers /\ Elements(tasks) \subseteq Numbers
      /\ Elements(syncing) \subseteq Numbers /\ Elements(buffers) \subseteq Numbers
      /\ Elements(smoothing) \subseteq Numbers /\ Past \subseteq Numbers
      /\ frames \in Nat /\ Numbers \subseteq Nat \ {0}
      /\ \A t \in Threads : held[t] \in Nat
  BY Ranges
<1>n. /\ \A x \in Past : x \in Nat
      /\ \A x \in Elements(driver) : x \in Nat
      /\ \A x \in Elements(buffers) : x \in Nat
      /\ \A x \in Elements(smoothing) : x \in Nat
      /\ held["snap"] \in Nat /\ frames \in Nat
  <2>1. \A x \in Numbers : x \in Nat
    BY <1>r
  <2>2. \A S : S \subseteq Numbers => \A x \in S : x \in Nat
    BY <2>1
  <2>3. held["snap"] \in Nat /\ frames \in Nat
    BY <1>s, <1>a, <1>t DEF ShapeInv
  <2>4. \A x \in Past : x \in Nat
    BY <2>2, <1>r
  <2>5. \A x \in Elements(driver) : x \in Nat
    BY <2>2, <1>r
  <2>6. \A x \in Elements(buffers) : x \in Nat
    BY <2>2, <1>r
  <2>7. \A x \in Elements(smoothing) : x \in Nat
    BY <2>2, <1>r
  <2> QED BY <2>3, <2>4, <2>5, <2>6, <2>7
<1>i. FedInv /\ SmoothInv /\ SnapInv /\ PathInv
  BY DEF OrderInv
<1>w. \A t \in {"snap", "smooth", "sync"} : Wake(t) = at[t] \/ (at[t] = "asleep" /\ Wake(t) = "look")
  BY DEF Wake
<1> USE <1>t, <1>a
(* A step that moves no frame.                                             *)
<1>q. ASSUME UNCHANGED <<frames, driver, tasks, syncing, buffers, smoothing, mode>>,
             causes \subseteq causes',
             \A t \in {"snap", "event", "sync"} : held'[t] = held[t],
             at'["snap"] = at["snap"] \/ {at["snap"], at'["snap"]} \intersect {"feed", "pop"} = {},
             at["smooth"] = "pop" => at'["smooth"] = "pop",
             WritingPts' => mode # 0
      PROVE  OrderInv'
  <2>1. Past' = Past
    BY <1>q DEF Past
  <2>2. FedInv'
    BY <1>q, <1>i, <2>1 DEF FedInv
  <2>3. SmoothInv'
    BY <1>q, <1>i, <2>1 DEF SmoothInv
  <2>4. SnapInv'
    BY <1>q, <1>i DEF SnapInv
  <2>5. PathInv'
    <3>1. LineInv => LineInv'
      BY <1>q DEF LineInv
    <3> QED BY <1>q, <1>i, <3>1 DEF PathInv
  <2> QED BY <2>2, <2>3, <2>4, <2>5 DEF OrderInv
(* A step of the threads beyond the smoother.                              *)
<1>d. ASSUME kind = "video", UNCHANGED <<frames, kind, buffers, smoothing, mode, causes>>,
             at'["smooth"] = at["smooth"], held'["snap"] = held["snap"],
             Past' \subseteq Past, LineInv => LineInv'
      PROVE  OrderInv'
  <2>1. FedInv'
    BY <1>d, <1>i DEF FedInv
  <2>2. SmoothInv'
    BY <1>d, <1>i DEF SmoothInv
  <2>3. SnapInv'
    BY <1>d, <1>s, NoElements DEF SnapInv, KindInv
  <2>4. PathInv'
    BY <1>d, <1>i DEF PathInv, WritingPts
  <2> QED BY <2>1, <2>2, <2>3, <2>4 DEF OrderInv
(* What a photo stream has beyond the smoother.                            *)
<1>p. kind = "photo" => /\ tasks = <<>> /\ syncing = <<>> /\ smoothing = <<>>
                        /\ held["event"] = 0 /\ held["sync"] = 0 /\ Past = Elements(driver) /\ ~WritingPts
  BY <1>s, NoElements DEF KindInv, Past, WritingPts
<1>1. CASE Start
  <2>1. \A t \in Threads : at[t] = "off" /\ at'[t] \in {"look", "off"}
    BY <1>1 DEF Start
  <2>2. UNCHANGED <<held, frames, driver, tasks, syncing, buffers, smoothing, mode, causes>>
    BY <1>1 DEF Start, queues, syncVars
  <2>3. ~WritingPts'
    BY <2>1 DEF WritingPts
  <2> QED BY <1>q, <2>1, <2>2, <2>3
<1>2. CASE FeedStream /\ FeedPhoto
  <2>1. frames + 1 \in Numbers /\ frames' = frames + 1 /\ kind = "photo"
    BY <1>2, <1>s DEF FeedStream, FeedPhoto, ShapeInv, Numbers
  <2>2. /\ UNCHANGED <<held, kind, tasks, syncing, smoothing, driver, mode>> /\ causes \subseteq causes'
        /\ at' = [at EXCEPT !["snap"] = Wake("snap")]
    BY <1>2 DEF FeedStream, FeedPhoto, Goes, syncVars
  <2>3. \A b \in Elements(buffers) : b < frames + 1
    <3>1. \A b \in Elements(buffers) : b <= frames
      BY <1>i DEF FedInv
    <3> QED BY <1>n, <3>1
  <2>4. Sorted(buffers') /\ Elements(buffers') \subseteq Elements(buffers) \union {frames + 1}
    <3>1. CASE Len(buffers) >= MaxPhotos
      <4>1. buffers # <<>> /\ buffers' = Append(Tail(buffers), frames + 1)
        BY <1>2, <1>s, <3>1, NoElements DEF FeedPhoto, QueuesInv
      <4>2. /\ Tail(buffers) \in Seq(Numbers) /\ Sorted(Tail(buffers))
            /\ Elements(Tail(buffers)) \subseteq Elements(buffers)
        BY <4>1, <1>s, <1>i, Shortened DEF QueuesInv, SnapInv
      <4> QED BY <4>1, <4>2, <2>1, <2>3, Appended
    <3>2. CASE ~(Len(buffers) >= MaxPhotos)
      <4>1. buffers' = Append(buffers, frames + 1)
        BY <1>2, <3>2 DEF FeedPhoto
      <4> QED BY <4>1, <2>1, <2>3, <1>s, <1>i, Appended DEF QueuesInv, SnapInv
    <3> QED BY <3>1, <3>2
  <2>5. at'["snap"] = at["snap"] \/ {at["snap"], at'["snap"]} \intersect {"feed", "pop"} = {}
    BY <2>2, <1>w
  <2>6. Past' = Past
    BY <2>2 DEF Past
  <2>7. FedInv'
    BY <1>i, <1>r, <2>1, <2>2, <2>4, <2>6 DEF FedInv
  <2>8. SmoothInv'
    BY <1>p, <2>1, <2>2, NoElements DEF SmoothInv
  <2>9. SnapInv'
    <3>1. \A x \in Elements(driver) \union {held["snap"]} : x < frames + 1
      <4>1. \A x \in Elements(driver) \union {held["snap"]} : x <= frames
        BY <1>i DEF FedInv, Past
      <4> QED BY <1>n, <4>1
    <3>2. held' = held /\ driver' = driver
      BY <2>2
    <3>3. at'["snap"] \notin {"feed", "pop"} => \A x \in Elements(driver), b \in Elements(buffers') : x < b
      BY <1>i, <2>4, <2>5, <3>1 DEF SnapInv
    <3>4. at'["snap"] = "feed" => \A x \in Elements(driver) : x < held["snap"]
      BY <1>i, <2>5 DEF SnapInv
    <3>5. at'["snap"] = "feed" => \A b \in Elements(buffers') : held["snap"] <= b
      <4>1. at'["snap"] = "feed" => \A b \in Elements(buffers) : held["snap"] <= b
        BY <1>i, <2>5 DEF SnapInv
      <4>2. held["snap"] <= frames + 1
        BY <1>n, <3>1
      <4> QED BY <4>1, <4>2, <2>4
    <3>6. at'["snap"] = "pop" => \A x \in Elements(driver), b \in Elements(buffers') : x <= b
      <4>1. at'["snap"] = "pop" => \A x \in Elements(driver), b \in Elements(buffers) : x <= b
        BY <1>i, <2>5 DEF SnapInv
      <4>2. \A x \in Elements(driver) : x <= frames + 1
        BY <1>n, <3>1
      <4> QED BY <4>1, <4>2, <2>4
    <3> QED BY <2>4, <3>2, <3>3, <3>4, <3>5, <3>6 DEF SnapInv
  <2>10. PathInv'
    <3>1. LineInv => LineInv'
      BY <2>2 DEF LineInv
    <3>2. at'["smooth"] = at["smooth"]
      BY <2>2
    <3> QED BY <1>i, <2>2, <3>1, <3>2 DEF PathInv, WritingPts
  <2> QED BY <2>7, <2>8, <2>9, <2>10 DEF OrderInv
<1>3. CASE FeedStream /\ PushData
  <2>1. frames + 1 \in Numbers /\ frames' = frames + 1 /\ kind = "video"
    BY <1>3, <1>s DEF FeedStream, PushData, ShapeInv, Numbers
  <2>2. /\ UNCHANGED <<held, kind, tasks, syncing, buffers, driver, mode, causes>>
        /\ at' = [at EXCEPT !["smooth"] = Wake("smooth")] /\ smoothing' = Append(smoothing, frames + 1)
    BY <1>3 DEF FeedStream, PushData, Goes, syncVars
  <2>3. \A b \in Elements(smoothing) \union Past : b < frames + 1
    <3>1. \A b \in Elements(smoothing) \union Past : b <= frames
      BY <1>i DEF FedInv
    <3> QED BY <1>n, <3>1
  <2>4. Sorted(smoothing') /\ Elements(smoothing') = Elements(smoothing) \union {frames + 1}
    BY <2>1, <2>2, <2>3, <1>s, <1>i, Appended DEF QueuesInv, SmoothInv
  <2>5. /\ at["smooth"] = "pop" => at'["smooth"] = "pop"
        /\ WritingPts' => WritingPts
        /\ at'["snap"] = at["snap"]
    BY <2>2, <1>w DEF WritingPts
  <2>6. Past' = Past
    BY <2>2 DEF Past
  <2>7. FedInv'
    BY <1>i, <1>r, <2>1, <2>2, <2>4, <2>6 DEF FedInv
  <2>8. SmoothInv'
    BY <1>i, <1>r, <2>3, <2>4, <2>5, <2>6 DEF SmoothInv
  <2>9. SnapInv'
    BY <1>i, <2>2, <2>5 DEF SnapInv
  <2>10. PathInv'
    <3>1. LineInv => LineInv'
      BY <2>2 DEF LineInv
    <3> QED BY <1>i, <2>2, <2>5, <3>1 DEF PathInv
  <2> QED BY <2>7, <2>8, <2>9, <2>10 DEF OrderInv
<1>4. CASE LooperSnapShot /\ SnapLooks
  <2>1. /\ UNCHANGED <<kind, buffers, smoothing, tasks, syncing, driver, causes, frames, mode>>
        /\ at["snap"] = "look"
        /\ \/ (\E p \in {"ended", "asleep"} : at' = [at EXCEPT !["snap"] = p]) /\ held' = held
           \/ /\ at' = [at EXCEPT !["snap"] = "feed"] /\ held' = [held EXCEPT !["snap"] = Head(buffers)]
              /\ buffers # <<>>
    BY <1>4 DEF LooperSnapShot, SnapLooks, Goes, Takes, queues, syncVars
  <2>2. CASE (\E p \in {"ended", "asleep"} : at' = [at EXCEPT !["snap"] = p]) /\ held' = held
    <3>1. WritingPts' => WritingPts
      BY <2>2 DEF WritingPts
    <3> QED BY <1>q, <1>i, <2>1, <2>2, <3>1 DEF PathInv
  <2>3. CASE /\ at' = [at EXCEPT !["snap"] = "feed"] /\ held' = [held EXCEPT !["snap"] = Head(buffers)]
             /\ buffers # <<>>
    <3>1. Head(buffers) \in Elements(buffers) /\ \A b \in Elements(buffers) : Head(buffers) <= b
      BY <2>3, <1>s, <1>i, Shortened DEF QueuesInv, SnapInv
    <3>2. Past' = Past /\ at'["smooth"] = at["smooth"]
      BY <2>1, <2>3 DEF Past
    <3>3. FedInv'
      BY <1>i, <2>1, <2>3, <3>1, <3>2 DEF FedInv
    <3>4. SmoothInv'
      BY <1>i, <2>1, <3>2 DEF SmoothInv
    <3>5. SnapInv'
      BY <1>i, <2>1, <2>3, <3>1 DEF SnapInv
    <3>6. PathInv'
      <4>1. LineInv => LineInv'
        BY <2>1, <2>3 DEF LineInv
      <4> QED BY <1>i, <2>1, <3>2, <4>1 DEF PathInv, WritingPts
    <3> QED BY <3>3, <3>4, <3>5, <3>6 DEF OrderInv
  <2> QED BY <2>1, <2>2, <2>3
<1>5. CASE LooperSnapShot /\ SnapFeeds
  <2>0. held["snap"] \in Numbers /\ kind = "photo"
    BY <1>5, <1>s DEF SnapFeeds, HeldInv, KindInv, ShapeInv, Numbers
  <2>1. /\ UNCHANGED <<kind, held, buffers, smoothing, tasks, syncing, causes, frames, mode>>
        /\ \/ driver' = Append(driver, held["snap"]) /\ at' = [at EXCEPT !["snap"] = "pop"]
           \/ driver' = driver /\ at' = [at EXCEPT !["snap"] = "look"]
        /\ at["snap"] = "feed"
    BY <1>5 DEF LooperSnapShot, SnapFeeds, Goes, Shuttered, queues, syncVars
  <2>2. /\ Elements(Append(driver, held["snap"])) = Elements(driver) \union {held["snap"]}
        /\ Sorted(driver) => Sorted(Append(driver, held["snap"]))
    BY <2>0, <2>1, <1>s, <1>i, Appended DEF QueuesInv, SnapInv
  <2>3. Past = Elements(driver) /\ Past' = Elements(driver') /\ smoothing' = <<>> /\ ~WritingPts'
    BY <1>p, <2>0, <2>1, NoElements DEF Past, WritingPts
  <2>4. FedInv'
    BY <1>i, <2>1, <2>2, <2>3 DEF FedInv
  <2>5. SmoothInv'
    BY <2>3, NoElements DEF SmoothInv
  <2>6. SnapInv'
    <3>1. /\ \A x \in Elements(driver) : x < held["snap"]
          /\ \A b \in Elements(buffers) : held["snap"] <= b
      BY <1>i, <2>1 DEF SnapInv
    <3>2. \A x \in Elements(driver), b \in Elements(buffers) : x < b
      BY <1>n, <3>1
    <3>3. \A x \in Elements(driver) \union {held["snap"]}, b \in Elements(buffers) : x <= b
      BY <1>n, <3>1, <3>2
    <3> QED BY <1>i, <2>1, <2>2, <3>2, <3>3 DEF SnapInv
  <2>7. PathInv'
    <3>1. LineInv => LineInv'
      BY <1>p, <2>0, <2>1, <2>2, NoElements DEF LineInv
    <3> QED BY <1>i, <2>1, <2>3, <3>1 DEF PathInv
  <2> QED BY <2>4, <2>5, <2>6, <2>7 DEF OrderInv
<1>6. CASE LooperSnapShot /\ SnapPops
  <2>0. kind = "photo"
    BY <1>6, <1>s DEF SnapPops, KindInv, ShapeInv
  <2>1. /\ UNCHANGED <<kind, driver, smoothing, tasks, syncing, causes, frames, mode>>
        /\ at' = [at EXCEPT !["snap"] = "look"] /\ held' = [held EXCEPT !["snap"] = 0]
        /\ at["snap"] = "pop" /\ buffers' = Tail(buffers) /\ buffers # <<>>
    BY <1>6, <1>s DEF LooperSnapShot, SnapPops, Goes, Takes, HeldInv, syncVars
  <2>2. /\ Elements(buffers) = Elements(buffers') \union {Head(buffers)} /\ Head(buffers) \in Numbers
        /\ Sorted(buffers') /\ \A y \in Elements(buffers') : Head(buffers) < y
    BY <2>1, <1>s, <1>i, Shortened DEF QueuesInv, SnapInv
  <2>3. Past' = Past /\ ~WritingPts'
    BY <1>p, <2>0, <2>1 DEF Past, WritingPts
  <2>4. FedInv'
    BY <1>i, <1>r, <2>1, <2>2, <2>3 DEF FedInv
  <2>5. SmoothInv'
    BY <1>p, <2>0, <2>1, NoElements DEF SmoothInv
  <2>6. SnapInv'
    <3>1. \A x \in Elements(driver) : x <= Head(buffers)
      BY <1>i, <2>1, <2>2 DEF SnapInv
    <3>2. \A x \in Elements(driver), b \in Elements(buffers') : x < b
      <4>1. Head(buffers) \in Nat /\ \A b \in Elements(buffers') : b \in Nat
        BY <1>n, <1>r, <2>2
      <4> QED BY <1>n, <2>2, <3>1, <4>1
    <3> QED BY <2>1, <2>2, <3>2 DEF SnapInv
  <2>7. PathInv'
    <3>1. LineInv => LineInv'
      BY <2>1 DEF LineInv
    <3> QED BY <1>i, <2>1, <2>3, <3>1 DEF PathInv
  <2> QED BY <2>4, <2>5, <2>6, <2>7 DEF OrderInv
<1>7. CASE LooperSmooth /\ (SmoothLooks \/ SmoothFeeding)
  <2>1. /\ UNCHANGED <<driver, buffers, smoothing, tasks, syncing, causes, frames, mode>>
        /\ \E p \in {"ended", "drowsy", "pace", "notify"} : at' = [at EXCEPT !["smooth"] = p]
        /\ held' = held \/ held' = [held EXCEPT !["smooth"] = Head(smoothing)]
        /\ at["smooth"] # "pop"
    BY <1>7 DEF LooperSmooth, SmoothLooks, SmoothFeeding, Goes, Takes, queues
  <2>2. at'["snap"] = at["snap"] /\ ~WritingPts'
    BY <2>1 DEF WritingPts
  <2>3. \A t \in {"snap", "event", "sync"} : held'[t] = held[t]
    BY <2>1
  <2> QED BY <1>q, <2>1, <2>2, <2>3
<1>8. CASE LooperSmooth /\ OnSmoothFinished
  <2>0. held["smooth"] \in Numbers /\ smoothing # <<>> /\ held["smooth"] = Head(smoothing) /\ kind = "video"
    <3>1. smoothing # <<>> /\ held["smooth"] = Head(smoothing) /\ kind = "video"
      BY <1>8, <1>s DEF OnSmoothFinished, HeldInv, Smoothed, KindInv, ShapeInv
    <3> QED BY <3>1, <1>s, Shortened DEF QueuesInv
  <2>1. /\ UNCHANGED <<kind, held, driver, buffers, smoothing, syncing, causes, frames, mode>>
        /\ at["smooth"] = "notify"
        /\ \/ mode # 0 /\ at' = [at EXCEPT !["smooth"] = "map"] /\ tasks' = tasks
           \/ mode = 0 /\ at' = [at EXCEPT !["smooth"] = "pop"] /\ tasks' = Append(tasks, held["smooth"])
    BY <1>8 DEF LooperSmooth, OnSmoothFinished, Goes
  <2>2. CASE mode # 0 /\ at' = [at EXCEPT !["smooth"] = "map"] /\ tasks' = tasks
    BY <1>q, <2>1, <2>2
  <2>3. CASE mode = 0 /\ at' = [at EXCEPT !["smooth"] = "pop"] /\ tasks' = Append(tasks, held["smooth"])
    <3> DEFINE f == held["smooth"]
    <3>1. f \in Elements(smoothing) /\ \A s \in Elements(smoothing) : f <= s
      BY <2>0, <1>s, <1>i, Shortened DEF QueuesInv, SmoothInv
    <3>2. \A x \in Past : x < f
      BY <1>i, <2>1, <3>1 DEF SmoothInv
    <3>3. Elements(tasks') = Elements(tasks) \union {f} /\ (Sorted(tasks) => Sorted(tasks'))
      BY <2>0, <2>3, <3>2, <1>s, Appended DEF QueuesInv, Past
    <3>4. Past' = Past \union {f} /\ ~WritingPts' /\ at'["snap"] = at["snap"]
      BY <2>1, <2>3, <3>3 DEF Past, WritingPts
    <3>5. FedInv'
      BY <1>i, <2>1, <3>1, <3>4 DEF FedInv
    <3>6. SmoothInv'
      BY <1>i, <2>1, <2>3, <3>1, <3>4 DEF SmoothInv
    <3>7. SnapInv'
      BY <1>i, <2>1, <3>4 DEF SnapInv
    <3>8. PathInv'
      <4>1. ASSUME LineInv PROVE LineInv'
        <5>1. \A x \in Elements(driver) : x < f
          BY <3>2 DEF Past
        <5>2. held["event"] # 0 => held["event"] < f
          BY <3>2 DEF Past
        <5>3. syncing = <<>> /\ held["sync"] = 0
          BY <2>3, <4>1 DEF LineInv
        <5> HIDE DEF f
        <5> QED BY <2>1, <2>3, <3>3, <4>1, <5>1, <5>2, <5>3 DEF LineInv
      <4> QED BY <1>i, <2>1, <3>4, <4>1 DEF PathInv
    <3> QED BY <3>5, <3>6, <3>7, <3>8 DEF OrderInv
  <2> QED BY <2>1, <2>2, <2>3
<1>9. CASE LooperSmooth /\ MapsMemory
  <2>1. /\ UNCHANGED <<held, driver, buffers, smoothing, tasks, syncing, causes, frames, mode>>
        /\ at["smooth"] = "map"
        /\ \/ at' = [at EXCEPT !["smooth"] = "spin"]
           \/ at' = [at EXCEPT !["smooth"] = "pop"]
    BY <1>9 DEF LooperSmooth, MapsMemory, Goes, queues
  <2>2. at'["snap"] = at["snap"] /\ mode # 0
    BY <1>i, <2>1 DEF PathInv, WritingPts
  <2> QED BY <1>q, <2>1, <2>2
<1>10. CASE LooperSmooth /\ AddSyncBuffer
  <2>0. held["smooth"] \in Numbers /\ smoothing # <<>> /\ held["smooth"] = Head(smoothing) /\ kind = "video"
    <3>1. smoothing # <<>> /\ held["smooth"] = Head(smoothing) /\ kind = "video"
      BY <1>10, <1>s DEF AddSyncBuffer, HeldInv, Smoothed, KindInv, ShapeInv
    <3> QED BY <3>1, <1>s, Shortened DEF QueuesInv
  <2>1. /\ UNCHANGED <<kind, held, driver, buffers, smoothing, tasks, causes, frames, mode>>
        /\ at["smooth"] = "put"
        /\ at' = [at EXCEPT !["smooth"] = "pop", !["sync"] = Wake("sync")]
    BY <1>10 DEF LooperSmooth, AddSyncBuffer
  <2> DEFINE f == held["smooth"]
  <2>2. f \in Elements(smoothing) /\ \A s \in Elements(smoothing) : f <= s
    BY <2>0, <1>s, <1>i, Shortened DEF QueuesInv, SmoothInv
  <2>3. \A x \in Past : x < f
    BY <1>i, <2>1, <2>2 DEF SmoothInv
  <2>4. /\ Elements(syncing') \subseteq Elements(syncing) \union {f}
        /\ Sorted(syncing) => Sorted(syncing')
    <3>1. CASE Len(syncing) >= MaxSync
      <4>1. syncing # <<>> /\ syncing' = Append(Tail(syncing), f)
        BY <1>10, <1>s, <3>1, NoElements DEF AddSyncBuffer, QueuesInv
      <4>2. /\ Tail(syncing) \in Seq(Numbers)
            /\ Sorted(syncing) => Sorted(Tail(syncing))
            /\ Elements(Tail(syncing)) \subseteq Elements(syncing)
        BY <4>1, <1>s, Shortened DEF QueuesInv
      <4>3. \A x \in Elements(Tail(syncing)) : x < f
        BY <2>3, <4>2 DEF Past
      <4>4. /\ Elements(syncing') = Elements(Tail(syncing)) \union {f}
            /\ Sorted(Tail(syncing)) => Sorted(syncing')
        <5> HIDE DEF f
        <5>1. f \in Numbers
          BY <2>0 DEF f
        <5> QED BY <4>1, <4>2, <4>3, <5>1, Appended
      <4> QED BY <4>2, <4>4
    <3>2. CASE ~(Len(syncing) >= MaxSync)
      <4>1. syncing' = Append(syncing, f)
        BY <1>10, <3>2 DEF AddSyncBuffer
      <4>2. \A x \in Elements(syncing) : x < f
        BY <2>3 DEF Past
      <4> QED BY <4>1, <4>2, <2>0, <1>s, Appended DEF QueuesInv
    <3> QED BY <3>1, <3>2
  <2>5. Past' \subseteq Past \union {f} /\ ~WritingPts' /\ at'["snap"] = at["snap"] /\ at'["smooth"] = "pop"
    BY <2>1, <2>4 DEF Past, WritingPts
  <2>6. FedInv'
    BY <1>i, <2>1, <2>2, <2>5 DEF FedInv
  <2>7. SmoothInv'
    BY <1>i, <2>1, <2>2, <2>5 DEF SmoothInv
  <2>8. SnapInv'
    BY <1>i, <2>1, <2>5 DEF SnapInv
  <2>9. PathInv'
    <3>1. mode # 0
      BY <1>i, <2>1 DEF PathInv, WritingPts
    <3>2. ASSUME LineInv PROVE LineInv'
      <4>1. \A x \in Elements(driver) : x < f
        BY <2>3 DEF Past
      <4>2. held["sync"] # 0 => held["sync"] < f
        BY <2>3 DEF Past
      <4>3. tasks = <<>> /\ held["event"] = 0
        BY <3>1, <3>2 DEF LineInv
      <4> HIDE DEF f
      <4> QED BY <2>1, <2>4, <3>1, <3>2, <4>1, <4>2, <4>3 DEF LineInv
    <3> QED BY <1>i, <2>1, <2>5, <3>2 DEF PathInv
  <2> QED BY <2>6, <2>7, <2>8, <2>9 DEF OrderInv
<1>11. CASE LooperSmooth /\ SmoothPops
  <2>1. /\ UNCHANGED <<kind, driver, buffers, tasks, syncing, causes, frames, mode>>
        /\ at' = [at EXCEPT !["smooth"] = "look"] /\ held' = [held EXCEPT !["smooth"] = 0]
        /\ at["smooth"] = "pop" /\ smoothing' = Tail(smoothing)
    BY <1>11 DEF LooperSmooth, SmoothPops, Goes, Takes
  <2>2. smoothing # <<>>
    BY <2>1, <1>s DEF HeldInv, Smoothed
  <2>3. /\ Elements(smoothing) = Elements(smoothing') \union {Head(smoothing)} /\ Head(smoothing) \in Numbers
        /\ Sorted(smoothing') /\ \A y \in Elements(smoothing') : Head(smoothing) < y
    BY <2>1, <2>2, <1>s, <1>i, Shortened DEF QueuesInv, SmoothInv
  <2>4. Past' = Past /\ ~WritingPts' /\ at'["snap"] = at["snap"] /\ held'["snap"] = held["snap"]
    BY <2>1 DEF Past, WritingPts
  <2>5. FedInv'
    BY <1>i, <2>1, <2>3, <2>4 DEF FedInv
  <2>6. SmoothInv'
    <3>1. \A x \in Past : x <= Head(smoothing)
      <4>1. Head(smoothing) \in Elements(smoothing) /\ Head(smoothing) \in Nat
        BY <1>r, <2>3
      <4>2. \A x \in Past : x < Head(smoothing) \/ x <= Head(smoothing)
        BY <1>i, <4>1 DEF SmoothInv
      <4> QED BY <1>n, <4>1, <4>2
    <3>2. \A x \in Past, s \in Elements(smoothing') : x < s
      <4>1. Head(smoothing) \in Nat /\ \A b \in Elements(smoothing') : b \in Nat
        BY <1>n, <1>r, <2>3
      <4> QED BY <1>n, <2>3, <3>1, <4>1
    <3> QED BY <2>3, <2>4, <3>2 DEF SmoothInv
  <2>7. SnapInv'
    BY <1>i, <2>1, <2>4 DEF SnapInv
  <2>8. PathInv'
    <3>1. LineInv => LineInv'
      BY <2>1 DEF LineInv
    <3> QED BY <1>i, <2>1, <2>4, <3>1 DEF PathInv
  <2> QED BY <2>5, <2>6, <2>7, <2>8 DEF OrderInv
<1>12. ASSUME NEW t \in Threads, FallsAsleep(t) PROVE OrderInv'
  <2>1. /\ at[t] = "drowsy" /\ at' = [at EXCEPT ![t] = "asleep"]
        /\ UNCHANGED <<held, driver, buffers, smoothing, tasks, syncing, causes, frames, mode>>
    BY <1>12 DEF FallsAsleep, Goes, queues, syncVars
  <2>2. WritingPts' => WritingPts
    BY <2>1 DEF WritingPts
  <2> QED BY <1>q, <1>i, <2>1, <2>2 DEF PathInv
<1>13. ASSUME NEW t \in Threads, UsesWord(t) PROVE OrderInv'
  <2>1. /\ at[t] \in {"spin", "taking", "hold"}
        /\ \E p \in {"taking", "hold", "put", "look", "compare"} : at' = [at EXCEPT ![t] = p]
        /\ t # "snap"
        /\ UNCHANGED <<held, driver, buffers, smoothing, tasks, syncing, causes, frames, mode>>
    BY <1>13 DEF UsesWord, Goes, queues
  <2>2. WritingPts' => WritingPts
    BY <2>1 DEF WritingPts
  <2> QED BY <1>q, <1>i, <2>1, <2>2 DEF PathInv
<1>14. ASSUME NEW t \in Threads, Faults(t) PROVE OrderInv'
  <2>1. /\ causes \subseteq causes'
        /\ UNCHANGED <<at, held, driver, buffers, smoothing, tasks, syncing, frames, mode>>
    BY <1>14 DEF Faults, queues, syncVars
  <2> QED BY <1>q, <1>i, <2>1 DEF PathInv, WritingPts
<1>15. CASE EventThread /\ RunsTask
  <2>0. kind = "video"
    BY <1>15, <1>s DEF RunsTask, KindInv, ShapeInv
  <2>1. /\ UNCHANGED <<kind, driver, buffers, smoothing, syncing, causes, frames, mode>>
        /\ \/ at' = [at EXCEPT !["event"] = "ended"] /\ held' = held /\ tasks' = tasks
           \/ /\ at' = [at EXCEPT !["event"] = "feed"] /\ held' = [held EXCEPT !["event"] = Head(tasks)]
              /\ tasks' = Tail(tasks) /\ tasks # <<>>
    BY <1>15 DEF EventThread, RunsTask, Goes, Takes, syncVars
  <2>2. CASE at' = [at EXCEPT !["event"] = "ended"] /\ held' = held /\ tasks' = tasks
    BY <1>q, <1>i, <2>1, <2>2 DEF PathInv, WritingPts
  <2>3. CASE /\ at' = [at EXCEPT !["event"] = "feed"] /\ held' = [held EXCEPT !["event"] = Head(tasks)]
             /\ tasks' = Tail(tasks) /\ tasks # <<>>
    <3>1. /\ Elements(tasks) = Elements(tasks') \union {Head(tasks)}
          /\ Sorted(tasks) => Sorted(tasks') /\ \A y \in Elements(tasks') : Head(tasks) < y
      BY <2>3, <1>s, Shortened DEF QueuesInv
    <3>2. held'["event"] = Head(tasks) /\ held'["sync"] = held["sync"]
      BY <2>3
    <3>3. Past' \subseteq Past
      BY <2>1, <3>1, <3>2 DEF Past
    <3>4. ASSUME LineInv PROVE LineInv'
      <4>1. mode = 0 /\ syncing = <<>> /\ held["sync"] = 0
        BY <2>3, <3>4 DEF LineInv
      <4>2. \A x \in Elements(driver) : x < Head(tasks)
        BY <3>1, <3>4 DEF LineInv
      <4> QED BY <2>1, <3>1, <3>2, <3>4, <4>1, <4>2, NoElements DEF LineInv
    <3> QED BY <1>d, <2>0, <2>1, <2>3, <3>3, <3>4
  <2> QED BY <2>1, <2>2, <2>3
<1>16. CASE EventThread /\ TaskFeeds
  <2>0. held["event"] \in Numbers /\ kind = "video"
    BY <1>16, <1>s DEF TaskFeeds, HeldInv, Numbers, KindInv, ShapeInv
  <2>1. /\ UNCHANGED <<kind, tasks, buffers, smoothing, syncing, causes, frames, mode>>
        /\ at' = [at EXCEPT !["event"] = "look"] /\ held' = [held EXCEPT !["event"] = 0]
        /\ driver' = Append(driver, held["event"]) \/ driver' = driver
    BY <1>16 DEF EventThread, TaskFeeds, Goes, Takes, Shuttered, queues, syncVars
  <2>2. /\ Elements(Append(driver, held["event"])) = Elements(driver) \union {held["event"]}
        /\ LineInv => Sorted(Append(driver, held["event"]))
    BY <2>0, <1>s, <1>r, Appended DEF QueuesInv, LineInv
  <2>3. Past' \subseteq Past
    BY <2>0, <2>1, <2>2, <1>r DEF Past
  <2>4. ASSUME LineInv PROVE LineInv'
    <3>1. held["event"] # 0
      BY <2>0, <1>r
    <3>2. mode = 0 /\ syncing = <<>> /\ held["sync"] = 0
      BY <2>4, <3>1 DEF LineInv
    <3>3. \A y \in Elements(tasks) : held["event"] < y
      BY <2>4, <3>1 DEF LineInv
    <3>4. held'["event"] = 0 /\ held'["sync"] = 0
      BY <2>1, <3>2
    <3>5. /\ Sorted(driver') /\ Elements(driver') \subseteq Elements(driver) \union {held["event"]}
          /\ Sorted(tasks) /\ \A x \in Elements(driver), y \in Elements(tasks) : x < y
      BY <2>1, <2>2, <2>4 DEF LineInv
    <3> QED BY <2>1, <3>2, <3>3, <3>4, <3>5, NoElements DEF LineInv
  <2> QED BY <1>d, <2>0, <2>1, <2>3, <2>4
<1>17. CASE SyncVideoThread
  <2>0. kind = "video"
    BY <1>17, <1>s DEF SyncVideoThread, WaitForVideoFrame, SyncVideoFrame, ComparesTimes, SyncFeeds,
         UpdateVideoClock,
      KindInv, ShapeInv
  <2>1. UNCHANGED <<kind, tasks, buffers, smoothing, causes, frames, mode>>
    BY <1>17 DEF SyncVideoThread, syncVars
  <2>2. /\ \E p \in Places : at' = [at EXCEPT !["sync"] = p]
        /\ held' = held \/ \E h \in 0 .. MaxFrames : held' = [held EXCEPT !["sync"] = h]
    <3>1. syncing # <<>> => Head(syncing) \in 0 .. MaxFrames
      <4>1. syncing # <<>> => Head(syncing) \in Numbers
        BY <1>s, Shortened DEF QueuesInv
      <4> QED BY <4>1 DEF Numbers
    <3> QED
      BY <1>17, <3>1 DEF SyncVideoThread, WaitForVideoFrame, SyncVideoFrame, ComparesTimes, SyncFeeds,
         UpdateVideoClock,
         GivesUp, Goes, Takes, Places
  <2>3. at'["smooth"] = at["smooth"] /\ at'["snap"] = at["snap"] /\ held'["snap"] = held["snap"]
        /\ held'["event"] = held["event"]
    BY <2>2
  <2>s. ASSUME UNCHANGED <<held, syncing, driver>> PROVE OrderInv'
    BY <1>q, <1>i, <2>s, <2>1, <2>3 DEF PathInv, WritingPts
  <2>v. LineInv => (held["sync"] # 0 \/ syncing # <<>> => mode # 0 /\ tasks = <<>> /\ held["event"] = 0)
    BY DEF LineInv
  <2>g. ASSUME GivesUp PROVE OrderInv'
    <3>1. UNCHANGED <<syncing, driver>> /\ held'["sync"] = 0
      BY <2>g DEF GivesUp, Takes
    <3>2. Past' \subseteq Past
      BY <2>1, <2>3, <3>1 DEF Past
    <3>3. LineInv => LineInv'
      BY <2>1, <2>3, <3>1 DEF LineInv
    <3> QED BY <1>d, <2>0, <2>1, <2>3, <3>2, <3>3
  <2>4. CASE WaitForVideoFrame
    <3>1. CASE running["sync"] /\ syncing # <<>>
      <4>1. held'["sync"] = Head(syncing) /\ syncing' = Tail(syncing) /\ driver' = driver
        BY <2>4, <3>1 DEF WaitForVideoFrame, Takes
      <4>2. /\ Elements(syncing) = Elements(syncing') \union {Head(syncing)}
            /\ Sorted(syncing) => Sorted(syncing') /\ \A y \in Elements(syncing') : Head(syncing) < y
        BY <3>1, <4>1, <1>s, Shortened DEF QueuesInv
      <4>3. Past' \subseteq Past
        BY <2>1, <2>3, <4>1, <4>2 DEF Past
      <4>4. ASSUME LineInv PROVE LineInv'
        <5>1. mode # 0 /\ tasks = <<>> /\ held["event"] = 0
          BY <2>v, <3>1, <4>4
        <5>2. \A x \in Elements(driver) : x < Head(syncing)
          BY <4>2, <4>4 DEF LineInv
        <5> QED BY <2>1, <2>3, <4>1, <4>2, <4>4, <5>1, <5>2, NoElements DEF LineInv
      <4> QED BY <1>d, <2>0, <2>1, <2>3, <4>3, <4>4
    <3>2. CASE ~(running["sync"] /\ syncing # <<>>)
      BY <2>s, <2>4, <3>2 DEF WaitForVideoFrame
    <3> QED BY <3>1, <3>2
  <2>5. CASE SyncVideoFrame
    BY <2>g, <2>s, <2>5 DEF SyncVideoFrame
  <2>6. CASE ComparesTimes
    <3>0. held["sync"] \in Numbers
      BY <2>6, <1>s DEF ComparesTimes, HeldInv, Numbers
    <3>1. CASE Takes("sync", 0) /\ syncing' = <<held["sync"]>> \o syncing /\ UNCHANGED driver
      <4>1. /\ Elements(syncing') = Elements(syncing) \union {held["sync"]}
            /\ LineInv => Sorted(syncing')
        BY <3>0, <3>1, <1>s, <1>r, PutBack DEF QueuesInv, LineInv
      <4>2. held'["sync"] = 0
        BY <3>1 DEF Takes
      <4>3. Past' \subseteq Past
        BY <2>1, <2>3, <3>0, <3>1, <4>1, <4>2, <1>r DEF Past
      <4>4. ASSUME LineInv PROVE LineInv'
        <5>0. held["sync"] # 0
          BY <3>0, <1>r
        <5>1. mode # 0 /\ tasks = <<>> /\ held["event"] = 0
          BY <2>v, <4>4, <5>0
        <5>2. \A x \in Elements(driver) : x < held["sync"]
          BY <4>4, <5>0 DEF LineInv
        <5> QED BY <2>1, <2>3, <3>1, <4>1, <4>2, <4>4, <5>1, <5>2, NoElements DEF LineInv
      <4> QED BY <1>d, <2>0, <2>1, <2>3, <4>3, <4>4
    <3> QED BY <2>g, <2>s, <2>6, <3>1 DEF ComparesTimes
  <2>7. CASE SyncFeeds
    <3>0. held["sync"] \in Numbers
      BY <2>7, <1>s DEF SyncFeeds, HeldInv, Numbers
    <3>1. CASE Shuttered("sync") /\ Takes("sync", 0) /\ UNCHANGED syncing
      <4>1. driver' = Append(driver, held["sync"]) /\ held'["sync"] = 0 /\ syncing' = syncing
        BY <3>1 DEF Shuttered, Takes
      <4>2. /\ Elements(driver') = Elements(driver) \union {held["sync"]}
            /\ LineInv => Sorted(driver')
        BY <3>0, <4>1, <1>s, <1>r, Appended DEF QueuesInv, LineInv
      <4>3. Past' \subseteq Past
        BY <2>1, <2>3, <3>0, <4>1, <4>2, <1>r DEF Past
      <4>4. ASSUME LineInv PROVE LineInv'
        <5>0. held["sync"] # 0
          BY <3>0, <1>r
        <5>1. mode # 0 /\ tasks = <<>> /\ held["event"] = 0
          BY <2>v, <4>4, <5>0
        <5>2. \A y \in Elements(syncing) : held["sync"] < y
          BY <4>4, <5>0 DEF LineInv
        <5> QED BY <2>1, <2>3, <4>1, <4>2, <4>4, <5>1, <5>2, NoElements DEF LineInv
      <4> QED BY <1>d, <2>0, <2>1, <2>3, <4>3, <4>4
    <3> QED BY <2>g, <2>7, <3>1 DEF SyncFeeds
  <2>8. CASE UpdateVideoClock
    BY <2>s, <2>8 DEF UpdateVideoClock
  <2> QED BY <1>17, <2>4, <2>5, <2>6, <2>7, <2>8 DEF SyncVideoThread
<1>18. CASE UpdateBegins
  <2>1. UNCHANGED <<at, held, driver, buffers, smoothing, tasks, syncing, causes, frames, mode>>
    BY <1>18 DEF UpdateBegins, queues
  <2> QED BY <1>q, <1>i, <2>1 DEF PathInv, WritingPts
<1>19. CASE UpdateEnds
  <2>1. /\ UNCHANGED <<at, held, driver, buffers, smoothing, tasks, syncing, frames>>
        /\ mode' = changing /\ ~WritingPts
        /\ causes \subseteq causes'
        /\ InPipe /\ (mode = 0) # (changing = 0) => "switched" \in causes'
    BY <1>19 DEF UpdateEnds, queues
  <2>2. Past' = Past /\ FedInv' /\ SmoothInv' /\ SnapInv'
    BY <1>i, <2>1 DEF Past, FedInv, SmoothInv, SnapInv
  <2>3. ~WritingPts'
    BY <2>1 DEF WritingPts
  <2>4. CASE ~InPipe
    <3>1. tasks = <<>> /\ syncing = <<>> /\ held["event"] = 0 /\ held["sync"] = 0
      BY <2>4 DEF InPipe
    <3>2. LineInv => LineInv'
      BY <2>1, <3>1 DEF LineInv
    <3> QED BY <1>i, <2>1, <2>2, <2>3, <3>2 DEF PathInv, OrderInv
  <2>5. CASE ~((mode = 0) # (changing = 0))
    <3>2. LineInv => LineInv'
      BY <2>1, <2>5 DEF LineInv
    <3> QED BY <1>i, <2>1, <2>2, <2>3, <3>2 DEF PathInv, OrderInv
  <2>6. CASE "switched" \in causes'
    BY <2>2, <2>3, <2>6 DEF PathInv, OrderInv
  <2> QED BY <2>1, <2>4, <2>5, <2>6
<1>20. CASE Stop
  <2>1. UNCHANGED <<kind, held, frames, buffers, tasks, syncing, driver, mode>>
    BY <1>20 DEF Stop
  <2>2. \A t \in {"snap", "smooth", "event", "sync"} :
          at'[t] = at[t] \/ (at[t] = "asleep" /\ at'[t] = "look")
    BY <1>20, <1>w DEF Stop, StopBegins, StopSnap, StopSmooth, StopRest, Tells, Wakes, Joined, Goes
  <2>3. causes \subseteq causes'
    BY <1>20 DEF Stop, StopBegins, StopSnap, StopSmooth, StopRest, Tells, Wakes, Joined
  <2>4. smoothing' = smoothing \/ smoothing' = <<>>
    BY <1>20 DEF Stop, StopBegins, StopSnap, StopSmooth, StopRest, Tells, Wakes, Joined
  <2>5. Past' = Past /\ (WritingPts' => WritingPts)
    BY <2>1, <2>2 DEF Past, WritingPts
  <2>6. CASE smoothing' = smoothing
    BY <1>q, <1>i, <2>1, <2>2, <2>3, <2>5, <2>6 DEF PathInv
  <2>7. CASE smoothing' = <<>>
    <3>1. FedInv'
      BY <1>i, <2>1, <2>5, <2>7, NoElements DEF FedInv
    <3>2. SmoothInv'
      BY <2>7, NoElements DEF SmoothInv
    <3>3. SnapInv'
      BY <1>i, <2>1, <2>2 DEF SnapInv
    <3>4. PathInv'
      <4>1. LineInv => LineInv'
        BY <2>1 DEF LineInv
      <4> QED BY <1>i, <2>1, <2>3, <2>5, <4>1 DEF PathInv
    <3> QED BY <3>1, <3>2, <3>3, <3>4 DEF OrderInv
  <2> QED BY <2>4, <2>6, <2>7
<1>21. CASE UNCHANGED vars
  <2>1. UNCHANGED <<at, held, driver, buffers, smoothing, tasks, syncing, causes, frames, mode>>
    BY <1>21 DEF vars, queues, syncVars
  <2> QED BY <1>q, <1>i, <2>1 DEF PathInv, WritingPts
<1> QED
  BY <1>1, <1>2, <1>3, <1>4, <1>5, <1>6, <1>7, <1>8, <1>9, <1>10, <1>11, <1>12, <1>13, <1>14, <1>15, <1>16, <1>17,
     <1>18, <1>19, <1>20, <1>21
  DEF Next, Runs, FeedStream, LooperSnapShot, LooperSmooth, EventThread

(* Frames reach the HDF: in the order they were fed unless a change of     *)
(* mode let two threads overtake each other, and every one of them until   *)
(* Stop, unless it was given up for a reason the code knows.               *)
THEOREM FramesArrive == Spec => []FramesReachDriver
<1>1. ASSUME TypeInv, LossInv, OrderInv PROVE FramesReachDriver
  <2>1. driver \in Seq(Numbers)
    BY <1>1 DEF TypeInv, QueuesInv
  <2>2. Sorted(driver) => Increasing(driver)
    <3>1. \A i \in 1 .. Len(driver) - 1 : i \in DOMAIN driver /\ i + 1 \in DOMAIN driver /\ i < i + 1
      BY <2>1
    <3> QED BY <3>1 DEF Sorted, Increasing
  <2>3. Increasing(driver) \/ "switched" \in causes
    BY <1>1, <2>2 DEF OrderInv, PathInv, LineInv
  <2>4. ASSUME stopping = "no", NEW f \in 1 .. frames
        PROVE  \/ f \in dropped \union Elements(driver)
               \/ \E q \in {buffers, smoothing, tasks, syncing} : f \in Elements(q)
               \/ \E t \in Threads : held[t] = f
               \/ "overtaken" \in causes
    <3>1. f \in Safe \/ f \in Elements(buffers) \/ f \in Elements(smoothing) \/ "overtaken" \in causes
      BY <1>1, <2>4 DEF LossInv
    <3> QED BY <3>1 DEF Safe, Threads
  <2> QED BY <2>3, <2>4 DEF FramesReachDriver
<1>2. QED BY InitTypes, TypesStep, InitLoss, LossStep, InitOrder, OrderStep, <1>1, PTL DEF Spec
=============================================================================
