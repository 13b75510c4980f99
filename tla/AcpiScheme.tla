----------------------------- MODULE AcpiScheme -----------------------------
(***************************************************************************)
(* scheme/acpi.rs: the ACPI scheme, called by several clients.  HANDLES is *)
(* behind a lock; a call runs while it holds the lock, except open, which  *)
(* takes its descriptor before it takes the lock, and read of the shutdown *)
(* pipe, which spins on WAIT_FLAG while it holds the lock.                 *)
(***************************************************************************)
EXTENDS Integers, Sequences, Option

CONSTANTS
  Clients,
  OpenCalls,    \* arguments of open: [path, flags, uid], where flags is a record
                \* [rdonly : access mode is O_RDONLY, bits : the other O_ flags]
  BufLens,      \* lengths of read buffers
  Positions,    \* seek positions, of type isize
  U64,          \* 2^64
  RootLen,      \* size_of::<UserAcpi>()
  SignatureLen, \* SIGNATURE.len()
  MaxOpens      \* bound on the number of descriptors taken

(* HandleKind, and the file that each kind of handle reads. *)
Kinds == {"TopLevel", "RootTable", "ShutdownPipe"}
Whence == {"SEEK_SET", "SEEK_CUR", "SEEK_END", "other"}
Fds == 0 .. (MaxOpens - 1)

Length(kind) ==
  CASE kind = "TopLevel" -> SignatureLen
    [] kind = "RootTable" -> RootLen
    [] kind = "ShutdownPipe" -> 1

(***************************************************************************)
(* A byte of a file: where it was read from and its place there, from 1.   *)
(* RootTable takes addr_of!(tables) of the local reference that DATA.get() *)
(* returned, so its bytes are those of the stack and not of the tables.    *)
(***************************************************************************)
Byte(kind, i) == [from |-> IF kind = "RootTable" THEN "stack" ELSE kind, place |-> i]

ASSUME AcpiSchemeConstants ==
  /\ None \notin [client : Clients, fd : Fds]
  /\ None \notin [fd : Fds, kind : Kinds, stat : BOOLEAN]
  /\ U64 \in Nat /\ U64 > 1 /\ U64 % 2 = 0 /\ MaxOpens \in Nat
  /\ RootLen \in 1 .. (U64 - 1) /\ SignatureLen \in 1 .. (U64 - 1)
  /\ BufLens \subseteq Nat
  /\ Positions \subseteq (-(U64 \div 2)) .. ((U64 \div 2) - 1)

VARIABLES
  handles,   \* HANDLES, with what each handle has delivered since its last seek
  next,      \* NEXT
  lock,      \* the client that holds HANDLES across steps and its descriptor, or None
  opening,   \* per client: the handle open is about to insert, or None
  flag,      \* WAIT_FLAG
  user,      \* USER_ACPI is initialised
  data,      \* DATA is initialised
  result,    \* what the last call to return returned
  panicked

vars == <<handles, next, lock, opening, flag, user, data, result, panicked>>

(* A handle whose offset is moved; stat, the rest of Handle, is set once. *)
Moved(h, offset, got) == [kind |-> h.kind, offset |-> offset, stat |-> h.stat, got |-> got]

(* syscall::Result *)
Ok(v) == [ok |-> v]
Err(e) == [err |-> e]

Init ==
  /\ handles = [f \in {} |-> 0]
  /\ next = 0 /\ lock = None
  /\ opening = [c \in Clients |-> None]
  /\ flag = FALSE /\ user = FALSE /\ data = FALSE
  /\ result = Ok(0)
  /\ panicked = FALSE

-----------------------------------------------------------------------------
Running(c) == ~panicked /\ opening[c] = None /\ (lock # None => lock.client # c)
Locked(c) == Running(c) /\ lock = None

Return(r) == result' = r

(* AcpiScheme::new; the tables are cloned once, if there are any. *)
New(c) ==
  /\ Running(c)
  /\ data' = (data \/ user)
  /\ Return(Ok(0))
  /\ UNCHANGED <<handles, next, lock, opening, flag, user, panicked>>

(* The checks of open, in their order; 0 when all are passed. *)
OpenError(path, flags, uid) ==
  IF uid # 0 THEN "EACCES"
  ELSE IF "O_CREAT" \in flags.bits THEN "EROFS"
  ELSE IF flags.bits \cap {"O_EXCL", "O_SYMLINK"} # {} THEN "EINVAL"
  ELSE IF ~flags.rdonly /\ "O_STAT" \notin flags.bits THEN "EROFS"
  ELSE IF path \notin {"", "rxsdt", "kstop"} THEN "ENOENT"
  ELSE IF flags.bits \cap {"O_DIRECTORY", "O_STAT"} = {} THEN "EISDIR"
  ELSE "none"

KindOf(path) ==
  CASE path = "" -> "TopLevel" [] path = "rxsdt" -> "RootTable" [] path = "kstop" -> "ShutdownPipe"

(* open, up to NEXT.fetch_add. *)
Open(c, path, flags, uid) ==
  /\ Running(c)
  /\ IF OpenError(path, flags, uid) # "none"
     THEN Return(Err(OpenError(path, flags, uid))) /\ UNCHANGED <<next, opening>>
     ELSE /\ next < MaxOpens
          /\ next' = next + 1
          /\ opening' = [opening EXCEPT ![c] = [fd |-> next, kind |-> KindOf(path),
                                                stat |-> "O_STAT" \in flags.bits]]
          /\ UNCHANGED result
  /\ UNCHANGED <<handles, lock, flag, user, data, panicked>>

(* open, from HANDLES.write(). *)
OpenInsert(c) ==
  /\ ~panicked /\ opening[c] # None /\ lock = None
  /\ LET o == opening[c]
         h == [kind |-> o.kind, offset |-> 0, stat |-> o.stat, got |-> <<>>]
     IN /\ handles' = [f \in DOMAIN handles \cup {o.fd} |-> IF f = o.fd THEN h ELSE handles[f]]
        /\ Return(Ok(o.fd))
  /\ opening' = [opening EXCEPT ![c] = None]
  /\ UNCHANGED <<next, lock, flag, user, data, panicked>>

(* fstat; the value returned stands for the st_size it fills in. *)
Fstat(c, id) ==
  /\ Locked(c)
  /\ Return(IF id \notin DOMAIN handles THEN Err("EBADF")
            ELSE IF handles[id].kind = "RootTable" /\ ~data THEN Err("EBADFD")
            ELSE Ok(Length(handles[id].kind)))
  /\ UNCHANGED <<handles, next, lock, opening, flag, user, data, panicked>>

CloseUnlocked(c, id) ==
  /\ Running(c)
  /\ handles' = [f \in DOMAIN handles \ {id} |-> handles[f]]
  /\ Return(IF id \in DOMAIN handles THEN Ok(0) ELSE Err("EBADF"))
  /\ UNCHANGED <<next, lock, opening, flag, user, data, panicked>>

Close(c, id) ==
  /\ Locked(c)
  /\ handles' = [f \in DOMAIN handles \ {id} |-> handles[f]]
  /\ Return(IF id \in DOMAIN handles THEN Ok(0) ELSE Err("EBADF"))
  /\ UNCHANGED <<next, lock, opening, flag, user, data, panicked>>

Write(c) ==
  /\ Running(c)
  /\ Return(Err("EBADF"))
  /\ UNCHANGED <<handles, next, lock, opening, flag, user, data, panicked>>

Fevent(c, id) ==
  /\ Locked(c)
  /\ Return(IF id \notin DOMAIN handles \/ handles[id].stat THEN Err("EBADF") ELSE Ok(0))
  /\ UNCHANGED <<handles, next, lock, opening, flag, user, data, panicked>>

-----------------------------------------------------------------------------
AsU64(pos) == pos % U64
AsIsize(n) == IF n < U64 \div 2 THEN n ELSE n - U64

(* checked_sub of -pos; -isize::MIN overflows, which SeekPanics tells. *)
Back(n, pos) == IF n + pos < 0 THEN Err("EINVAL") ELSE Ok(n + pos)

ForwardUnchecked(n, pos) == Ok(n + pos)

Forward(n, pos) == Ok(IF n + pos < U64 THEN n + pos ELSE U64 - 1)

SeekOffset(h, pos, whence) ==
  CASE whence = "SEEK_SET" -> Ok(AsU64(pos))
    [] whence = "SEEK_CUR" -> IF pos < 0 THEN Back(h.offset, pos) ELSE Forward(h.offset, pos)
    [] whence = "SEEK_END" -> IF pos < 0 THEN Back(Length(h.kind), pos) ELSE Ok(Length(h.kind))
    [] whence = "other" -> Err("EINVAL")

SeekPanics(h, pos, whence) ==
  \/ h.kind = "RootTable" /\ ~data
  \/ whence \in {"SEEK_CUR", "SEEK_END"} /\ pos = -(U64 \div 2)

Seek(c, id, pos, whence) ==
  /\ Locked(c)
  /\ IF id \notin DOMAIN handles \/ handles[id].stat
     THEN Return(Err("EBADF")) /\ UNCHANGED <<handles, panicked>>
     ELSE IF SeekPanics(handles[id], pos, whence)
     THEN panicked' = TRUE /\ UNCHANGED <<handles, result>>
     ELSE LET offset == SeekOffset(handles[id], pos, whence)
          IN /\ IF offset = Err("EINVAL")
                THEN Return(offset) /\ UNCHANGED handles
                ELSE /\ handles' = [handles EXCEPT ![id] = Moved(@, offset.ok, <<>>)]
                     /\ Return(Ok(AsIsize(offset.ok)))
             /\ UNCHANGED panicked
  /\ UNCHANGED <<next, lock, opening, flag, user, data>>

-----------------------------------------------------------------------------
Low(a, b) == IF a < b THEN a ELSE b

CopyOutMovesByBuffer(id, n) ==
  LET h == handles[id]
      from == Low(h.offset, Length(h.kind))
      toCp == Low(n, Length(h.kind) - from)
      bytes == [i \in 1 .. toCp |-> Byte(h.kind, from + i)]
  IN /\ handles' = [handles EXCEPT ![id] = Moved(h, h.offset + n, h.got \o bytes)]
     /\ Return(Ok(toCp))

(* read of SIGNATURE or of the tables: copy from the offset, then move it. *)
CopyOut(id, n) ==
  LET h == handles[id]
      from == Low(h.offset, Length(h.kind))
      toCp == Low(n, Length(h.kind) - from)
      bytes == [i \in 1 .. toCp |-> Byte(h.kind, from + i)]
  IN /\ handles' = [handles EXCEPT ![id] = Moved(h, h.offset + toCp, h.got \o bytes)]
     /\ Return(Ok(toCp))

(* The early returns of read. *)
ReadReturns(id, n) ==
  \/ id \notin DOMAIN handles
  \/ handles[id].kind = "RootTable" /\ ~data
  \/ handles[id].kind = "ShutdownPipe" /\ (n = 0 \/ handles[id].offset >= 1)

EarlyResult(id) ==
  IF id \notin DOMAIN handles THEN Err("EBADF")
  ELSE IF handles[id].kind = "RootTable" THEN Err("EBADFD") ELSE Ok(0)

(* read that returns at once *)
Read(c, id, n) ==
  /\ Locked(c)
  /\ IF ReadReturns(id, n)
     THEN Return(EarlyResult(id)) /\ UNCHANGED handles
     ELSE handles[id].kind # "ShutdownPipe" /\ CopyOut(id, n)
  /\ UNCHANGED <<next, lock, opening, flag, user, data, panicked>>

(* read of the shutdown pipe that finds the pipe unread: it keeps the lock. *)
PipeWait(c, id, n) ==
  /\ Locked(c) /\ ~ReadReturns(id, n) /\ handles[id].kind = "ShutdownPipe"
  /\ lock' = [client |-> c, fd |-> id]
  /\ UNCHANGED <<handles, next, opening, flag, user, data, result, panicked>>

PipeWakeNoBreak(c) ==
  /\ ~panicked /\ lock # None /\ flag
  /\ lock.client = c
  /\ UNCHANGED vars

(* The end of that read, from the load that finds WAIT_FLAG set. *)
PipeWake(c) ==
  /\ ~panicked /\ lock # None /\ flag
  /\ lock.client = c
  /\ handles' = [handles EXCEPT ![lock.fd] = Moved(@, 1, @.got \o <<Byte("ShutdownPipe", 1)>>)]
  /\ lock' = None
  /\ Return(Ok(1))
  /\ UNCHANGED <<next, opening, flag, user, data, panicked>>

-----------------------------------------------------------------------------
(* maink: USER_ACPI.call_once, once the tables are parsed. *)
TablesFound ==
  /\ ~panicked /\ ~user
  /\ user' = TRUE
  /\ UNCHANGED <<handles, next, lock, opening, flag, data, result, panicked>>

(* The part of the kernel that stops the system sets WAIT_FLAG. *)
KernelStop ==
  /\ ~panicked /\ ~flag
  /\ flag' = TRUE
  /\ UNCHANGED <<handles, next, lock, opening, user, data, result, panicked>>

Halted == panicked /\ UNCHANGED vars

Next ==
  \/ \E c \in Clients :
       \/ New(c) \/ Write(c) \/ OpenInsert(c) \/ PipeWake(c)
       \/ \E o \in OpenCalls : Open(c, o.path, o.flags, o.uid)
       \/ \E id \in Fds :
            \/ Fstat(c, id) \/ Close(c, id) \/ Fevent(c, id)
            \/ \E n \in BufLens : Read(c, id, n) \/ PipeWait(c, id, n)
            \/ \E pos \in Positions, whence \in Whence : Seek(c, id, pos, whence)
  \/ TablesFound \/ KernelStop \/ Halted

(* A client that spins on WAIT_FLAG runs, so it sees the flag when it is set. *)
Spec == Init /\ [][Next]_vars /\ \A c \in Clients : WF_vars(PipeWake(c))

-----------------------------------------------------------------------------
Bytes == [from : Kinds \cup {"stack"}, place : Nat]
Handles == [kind : Kinds, offset : 0 .. (U64 - 1), stat : BOOLEAN, got : Seq(Bytes)]
Opening == [fd : Fds, kind : Kinds, stat : BOOLEAN]

(* Values of the declared types: a handle's offset stays a u64 whatever is *)
(* read and sought (offset += to_cp, saturating_add, checked_sub).         *)
TypeOK ==
  /\ DOMAIN handles \subseteq Fds /\ handles \in [DOMAIN handles -> Handles]
  /\ next \in 0 .. MaxOpens
  /\ lock \in {None} \cup [client : Clients, fd : Fds]
  /\ opening \in [Clients -> {None} \cup Opening]
  /\ flag \in BOOLEAN /\ user \in BOOLEAN /\ data \in BOOLEAN /\ panicked \in BOOLEAN

(* While a read of the shutdown pipe spins, its handle stays as the read   *)
(* found it, though other clients open, close and seek: read keeps         *)
(* handle, a reference into HANDLES, across the loop.                      *)
PipeHandleKept ==
  lock # None => /\ lock.fd \in DOMAIN handles
                 /\ handles[lock.fd].kind = "ShutdownPipe" /\ handles[lock.fd].offset = 0

(* A read of the shutdown pipe returns, and frees HANDLES, once WAIT_FLAG  *)
(* is set.                                                                 *)
PipeWakes == (lock # None /\ flag) ~> lock = None

(* The handles as FileTable sees them, and the descriptors open has handed out. *)
View(h) ==
  [kind |-> h.kind, offset |-> h.offset, got |-> [i \in 1 .. Len(h.got) |-> h.got[i].place]]

FilesView == [f \in DOMAIN handles |-> View(handles[f])]

IssuedView == {f \in 0 .. (next - 1) : \A c \in Clients : opening[c] # None => opening[c].fd # f}

Files == INSTANCE FileTable WITH Offsets <- 0 .. (U64 - 1), files <- FilesView, issued <- IssuedView

(* The scheme keeps the promise of FileTable: the descriptors that open    *)
(* hands out are distinct even when opens interleave, close and seek act   *)
(* on one handle, and read delivers a file's bytes in order, each once.    *)
ImplementsFileTable == Files!Spec
=============================================================================
