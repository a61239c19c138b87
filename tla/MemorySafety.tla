---------------------------- MODULE MemorySafety ----------------------------
(***************************************************************************)
(* include/rtes/memory_safety.hpp and src/memory_safety.cpp: the buffers   *)
(* with checked access, BoundedString and the FileDescriptor wrapper.  A   *)
(* client calls their operations in any order; a call that throws leaves   *)
(* the object as it was.                                                   *)
(*                                                                         *)
(* size_t has SizeValues values.  A string is a sequence over Chars with   *)
(* 0 for the terminator; the bytes behind it stay what they were.  The     *)
(* kernel gives out the lowest free descriptor, as open() does.            *)
(***************************************************************************)
EXTENDS Integers, Sequences, SequencesExt, FiniteSets, FiniteSetsExt

CONSTANTS BufferSize,      \* size_ of the buffer
          SizeValues,      \* number of values of size_t
          MaxLen,          \* MAX_LEN of the strings
          Chars,           \* characters other than the terminator
          Strings,         \* two BoundedString objects
          Wrappers,        \* FileDescriptor objects
          MaxFd            \* bound on descriptor numbers

VARIABLES used,            \* FixedSizeBuffer::used_size_
          touched,         \* the addresses the last call read or wrote, relative to the buffer
          text,            \* string -> its bytes
          length,          \* string -> length_
          owned,           \* wrapper -> fd_
          loose,           \* descriptors that no wrapper holds: opened or released
          live,            \* descriptors open in the kernel
          closedTwice      \* a descriptor was closed that was not open

bufferVars == <<used, touched>>
stringVars == <<text, length>>
fdVars == <<owned, loose, live, closedTwice>>

SizeT == 0..(SizeValues - 1)

-----------------------------------------------------------------------------
(* FixedSizeBuffer and BoundsCheckedBuffer, of the same size *)
BufferInit == used = 0 /\ touched = {}

From(offset, size) == {(offset + i) % SizeValues : i \in 0..(size - 1)}

BufferWrite(size) == size <= BufferSize /\ used' = size /\ touched' = From(0, size)
BufferRead(size) == size <= used /\ touched' = From(0, size) /\ UNCHANGED used

(* The caller's lengths are at most the buffer's: the sum does not wrap. *)
BufferAppend(size) ==
  /\ size <= BufferSize /\ (used + size) % SizeValues <= BufferSize
  /\ touched' = From(used, size)
  /\ used' = (used + size) % SizeValues

BufferClear == used' = 0 /\ touched' = {}


ValidateRange(offset, size) == offset <= BufferSize /\ size <= BufferSize - offset

(* checked_read() and checked_write(), also the range check of AlignedBuffer::at() for one element. *)
CheckedAccess(offset, size) ==
  /\ ValidateRange(offset, size)
  /\ touched' = From(offset, size)
  /\ UNCHANGED used

BufferNext ==
  \/ BufferClear
  \/ \E size \in SizeT :
       BufferWrite(size) \/ BufferRead(size) \/ BufferAppend(size) \/ \E offset \in SizeT : CheckedAccess(offset, size)

(***************************************************************************)
(* FixedSizeBuffer and BoundsCheckedBuffer: no sequence of calls that the  *)
(* checks let through touches a byte outside the buffer, for any offset    *)
(* and length a size_t can hold.                                           *)
(***************************************************************************)
AccessInBounds == used <= BufferSize /\ touched \subseteq 0..(BufferSize - 1)

-----------------------------------------------------------------------------
(* BoundedString *)
Empty == [i \in 1..MaxLen |-> 0]
StringInit == text = [s \in Strings |-> Empty] /\ length = [s \in Strings |-> 0]

(* What memcpy of the first n bytes of a source leaves in the destination. *)
Memcpy(to, from, n) == [i \in 1..MaxLen |-> IF i <= n THEN from[i] ELSE to[i]]
Sources == UNION {[1..n -> Chars] : n \in 0..MaxLen}

StoreText(s, chars) ==
  /\ text' = [text EXCEPT ![s] = Memcpy(@, chars \o <<0>>, Len(chars) + 1)]
  /\ length' = [length EXCEPT ![s] = Len(chars)]

Assign(s, chars) == Len(chars) < MaxLen /\ StoreText(s, chars)
AssignTruncate(s, chars) == StoreText(s, IF Len(chars) >= MaxLen THEN SubSeq(chars, 1, MaxLen - 1) ELSE chars)
Cleared(bytes) == [bytes EXCEPT ![1] = 0]
ClearText(s) == text' = [text EXCEPT ![s] = Cleared(@)] /\ length' = [length EXCEPT ![s] = 0]

Copied(to, from) == Memcpy(text[to], text[from], length[from] + 1)

CopyText(to, from) ==
  /\ to # from
  /\ text' = [text EXCEPT ![to] = Copied(to, from)]
  /\ length' = [length EXCEPT ![to] = length[from]]

MoveText(to, from) ==
  /\ to # from
  /\ text' = [text EXCEPT ![to] = Copied(to, from), ![from] = Cleared(@)]
  /\ length' = [length EXCEPT ![to] = length[from], ![from] = 0]

(* operator==, on the bytes up to length_. *)
SameText(a, b) == length[a] = length[b] /\ SubSeq(text[a], 1, length[a]) = SubSeq(text[b], 1, length[b])

StringNext ==
  \/ \E s \in Strings, chars \in Sources : Assign(s, chars) \/ AssignTruncate(s, chars)
  \/ \E s \in Strings : ClearText(s)
  \/ \E a, b \in Strings : CopyText(a, b) \/ MoveText(a, b)

(* The text c_str() shows: the bytes before the first terminator of the array. *)
Shown(s) == SubSeq(text[s], 1, Min({i \in 1..MaxLen : text[s][i] = 0} \cup {MaxLen + 1}) - 1)

(***************************************************************************)
(* BoundedString: after any assignments, copies and moves over longer and  *)
(* shorter texts, c_str() shows exactly the length_ bytes that view()      *)
(* does, and two strings are equal exactly when they show the same text.   *)
(***************************************************************************)
TextTerminated ==
  /\ \A s \in Strings : Len(Shown(s)) = length[s]
  /\ \A a, b \in Strings : SameText(a, b) <=> Shown(a) = Shown(b)

-----------------------------------------------------------------------------
(* FileDescriptor *)
NoFd == -1
FdInit == owned = [w \in Wrappers |-> NoFd] /\ loose = {} /\ live = {} /\ closedTwice = FALSE

(* socket(), accept() or epoll_create1(): the descriptor is the caller's. *)
OpenDescriptor ==
  /\ live # 0..MaxFd
  /\ live' = live \cup {Min(0..MaxFd \ live)} /\ loose' = loose \cup {Min(0..MaxFd \ live)}
  /\ UNCHANGED <<owned, closedTwice>>

ClosedIn(fd) == IF fd = NoFd THEN live ELSE live \ {fd}
Close(fd) == live' = ClosedIn(fd) /\ closedTwice' = (closedTwice \/ (fd # NoFd /\ fd \notin live))

(* FileDescriptor(fd) and reset(fd): the caller gives its descriptor away. *)
Reset(w, fd) ==
  /\ fd \in loose \cup {NoFd}
  /\ Close(owned[w])
  /\ owned' = [owned EXCEPT ![w] = fd] /\ loose' = loose \ {fd}

MovedFrom(from) == NoFd

(* Move construction, and move assignment unless it is to itself. *)
MoveDescriptor(to, from) ==
  /\ to # from
  /\ Close(owned[to])
  /\ owned' = [owned EXCEPT ![to] = owned[from], ![from] = MovedFrom(from)]
  /\ UNCHANGED loose

Release(w) ==
  /\ owned[w] # NoFd
  /\ owned' = [owned EXCEPT ![w] = NoFd] /\ loose' = loose \cup {owned[w]}
  /\ UNCHANGED <<live, closedTwice>>

(* close() and the destructor. *)
CloseWrapper(w) ==
  /\ Close(owned[w])
  /\ owned' = [owned EXCEPT ![w] = NoFd]
  /\ UNCHANGED loose

FdNext ==
  \/ OpenDescriptor
  \/ \E w \in Wrappers : CloseWrapper(w) \/ Release(w) \/ \E fd \in loose \cup {NoFd} : Reset(w, fd)
  \/ \E a, b \in Wrappers : MoveDescriptor(a, b)

(***************************************************************************)
(* FileDescriptor: with descriptor numbers reused by the kernel, every     *)
(* open descriptor has exactly one owner, a wrapper or the caller, so none *)
(* is leaked and none is closed twice or closed under another owner.       *)
(***************************************************************************)
OneOwner ==
  /\ ~closedTwice
  /\ \A fd \in live : Cardinality({w \in Wrappers : owned[w] = fd}) = IF fd \in loose THEN 0 ELSE 1
  /\ \A w \in Wrappers : owned[w] \in live \cup {NoFd}

=============================================================================
