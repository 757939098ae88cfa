-------------------------------- MODULE LuaFiles -------------------------------
(* File handles (liolib.c).  A handle is a userdata with a FILE pointer, NULL   *)
(* once it is closed, and an environment whose __close closes files of its      *)
(* kind.  Programs, iterators and the default input and output refer to         *)
(* handles; io.close, an iterator at the end of its file, the collector and     *)
(* lua_close all close them.  The files themselves are the C library's.         *)
EXTENDS Integers, FiniteSets

CONSTANTS MaxHandles,  \* bound: handles created, stdin and stdout the first two
          IO_INPUT, IO_OUTPUT      \* the keys of the default files (liolib.c:20)

ASSUME HandlesAssumption == MaxHandles \in Nat \ {0, 1} /\ IO_INPUT # IO_OUTPUT

Stdin == 1
Stdout == 2
Handles == 1..MaxHandles
Streams == {IO_INPUT, IO_OUTPUT}

VARIABLES fptr,        \* handle -> its FILE pointer is not NULL
          fclose,      \* handle -> __close in its environment
          ffile,       \* handle -> the FILE opened for it: its kind, "closed", "none"
          fmade,       \* handles created so far
          fheld,       \* handles the program holds
          fiter,       \* iterators the program holds: <<handle, toclose>>
          fdefault,    \* IO_INPUT, IO_OUTPUT -> handle
          fended       \* lua_close has begun

fileVars == <<fptr, fclose, ffile, fmade, fheld, fiter, fdefault, fended>>

(* luaopen_io: the standard files, in the environment that does not close them. *)
FilesInit ==
  /\ fptr = [h \in Handles |-> h <= 2]
  /\ fclose = [h \in Handles |-> IF h <= 2 THEN "io_noclose" ELSE "none"]
  /\ ffile = [h \in Handles |-> IF h <= 2 THEN "standard" ELSE "none"]
  /\ fmade = 2
  /\ fheld = {} /\ fiter = {} /\ fended = FALSE
  /\ fdefault = [s \in Streams |-> IF s = IO_INPUT THEN Stdin ELSE Stdout]

Closers == [standard |-> "io_noclose", regular |-> "io_fclose", pipe |-> "io_pclose"]
FileKinds == {"regular", "pipe"}

(* newfile and the open that follows: the handle exists, closed, before its    *)
(* file; it keeps the environment of the function that makes it.  The open may *)
(* fail, and a memory error in newfile leaves at most a closed handle.         *)
NewHandle == fmade + 1
(* As io_popen would be with the environment of the other functions.           *)
SharedEnvOpens(kind, opened) ==
  /\ ~fended /\ fmade < MaxHandles
  /\ fmade' = NewHandle
  /\ fptr' = [fptr EXCEPT ![NewHandle] = opened]
  /\ ffile' = [ffile EXCEPT ![NewHandle] = IF opened THEN kind ELSE "none"]
  /\ fclose' = [fclose EXCEPT ![NewHandle] = "io_fclose"]
  /\ UNCHANGED fended

Opens(kind, opened) ==
  /\ ~fended /\ fmade < MaxHandles
  /\ fmade' = NewHandle
  /\ fptr' = [fptr EXCEPT ![NewHandle] = opened]
  /\ ffile' = [ffile EXCEPT ![NewHandle] = IF opened THEN kind ELSE "none"]
  /\ fclose' = [fclose EXCEPT ![NewHandle] = Closers[kind]]
  /\ UNCHANGED fended

(* io_open, io_tmpfile and io_popen return the handle; an open that failed      *)
(* returns nil and drops it.                                                   *)
io_open == \E kind \in FileKinds, opened \in BOOLEAN :
             /\ Opens(kind, opened)
             /\ fheld' = IF opened THEN fheld \cup {NewHandle} ELSE fheld
             /\ UNCHANGED <<fiter, fdefault>>

(* io_lines with a name: the iterator alone refers to the handle.              *)
io_lines == \E opened \in BOOLEAN :
              /\ Opens("regular", opened)
              /\ fiter' = IF opened THEN fiter \cup {<<NewHandle, TRUE>>} ELSE fiter
              /\ UNCHANGED <<fheld, fdefault>>

(* f_lines of an open handle, and io_lines of the default input.               *)
f_lines(h) == /\ ~fended /\ fptr[h]
              /\ h \in fheld \/ h = fdefault[IO_INPUT]
              /\ fiter' = fiter \cup {<<h, FALSE>>}
              /\ UNCHANGED <<fptr, fclose, ffile, fmade, fheld, fdefault, fended>>

(* g_iofile with a name: the default changes only when the open succeeded.     *)
SetDefaultByName(s) == \E opened \in BOOLEAN :
  /\ Opens("regular", opened)
  /\ fdefault' = IF opened THEN [fdefault EXCEPT ![s] = NewHandle] ELSE fdefault
  /\ UNCHANGED <<fheld, fiter>>

(* g_iofile with an open handle, and without argument.                         *)
SetDefault(s, h) == /\ ~fended /\ h \in fheld /\ fptr[h]
                    /\ fdefault' = [fdefault EXCEPT ![s] = h]
                    /\ UNCHANGED <<fptr, fclose, ffile, fmade, fheld, fiter, fended>>
GetDefault(s) == /\ ~fended
                 /\ fheld' = fheld \cup {fdefault[s]}
                 /\ UNCHANGED <<fptr, fclose, ffile, fmade, fiter, fdefault, fended>>

(* As io_fclose and io_pclose would be without *p = NULL.                       *)
AuxCloseKeepsPointer(h) ==
  IF fclose[h] = "io_noclose" THEN UNCHANGED <<fptr, ffile>>
  ELSE /\ UNCHANGED fptr
       /\ ffile' = [ffile EXCEPT ![h] =
                      IF @ \in FileKinds /\ Closers[@] = fclose[h] THEN "closed" ELSE "misused"]

(* aux_close by the handle's __close: io_noclose leaves the file open, the     *)
(* others close it and clear the pointer whether or not the close succeeds.  A *)
(* FILE closed twice or by the other function is misused (undefined in C).     *)
aux_close(h) ==
  IF fclose[h] = "io_noclose" THEN UNCHANGED <<fptr, ffile>>
  ELSE /\ fptr' = [fptr EXCEPT ![h] = FALSE]
       /\ ffile' = [ffile EXCEPT ![h] =
                      IF @ \in FileKinds /\ Closers[@] = fclose[h] THEN "closed" ELSE "misused"]

(* io_close of a handle the program holds or of the default output; a closed   *)
(* one is refused (tofile).                                                    *)
io_close(h) == /\ ~fended /\ fptr[h]
               /\ h \in fheld \/ h = fdefault[IO_OUTPUT]
               /\ aux_close(h)
               /\ UNCHANGED <<fclose, fmade, fheld, fiter, fdefault, fended>>

(* As io_readline would be without its test of a closed handle.                *)
ReadLineAnyway(it, eof) ==
  /\ ~fended /\ it \in fiter
  /\ IF eof /\ it[2] THEN aux_close(it[1])
     ELSE /\ ffile' = [ffile EXCEPT ![it[1]] =
                         IF @ \in {"closed", "misused"} THEN "misused" ELSE @]
          /\ UNCHANGED fptr
  /\ UNCHANGED <<fclose, fmade, fheld, fiter, fdefault, fended>>

(* io_readline: an error when the handle is closed; at the end of the file it  *)
(* closes the handle if io_lines opened it.  Reading a closed FILE would       *)
(* misuse it.                                                                  *)
io_readline(it, eof) ==
  /\ ~fended /\ it \in fiter /\ fptr[it[1]]
  /\ IF eof /\ it[2] THEN aux_close(it[1])
     ELSE /\ ffile' = [ffile EXCEPT ![it[1]] =
                         IF @ \in {"closed", "misused"} THEN "misused" ELSE @]
          /\ UNCHANGED fptr
  /\ UNCHANGED <<fclose, fmade, fheld, fiter, fdefault, fended>>

(* The program forgets a handle or an iterator.                                *)
ForgetHandle(h) == /\ ~fended /\ h \in fheld
                   /\ fheld' = fheld \ {h}
                   /\ UNCHANGED <<fptr, fclose, ffile, fmade, fiter, fdefault, fended>>
ForgetIterator(it) == /\ ~fended /\ it \in fiter
                      /\ fiter' = fiter \ {it}
                      /\ UNCHANGED <<fptr, fclose, ffile, fmade, fheld, fdefault, fended>>

(* io_gc, by the collector of a handle nothing refers to, by a program that    *)
(* calls the metamethod, or by lua_close of every handle: closed ones are      *)
(* ignored.                                                                    *)
Referred(h) == \/ h \in fheld
               \/ \E s \in Streams : fdefault[s] = h
               \/ \E it \in fiter : it[1] = h
(* As io_gc would be without its test of the pointer.                          *)
FinalizeAgain(h) == /\ h <= fmade /\ h > 2 /\ (fended \/ h \in fheld \/ ~Referred(h))
                    /\ ffile[h] # "none" /\ aux_close(h)
                    /\ UNCHANGED <<fclose, fmade, fheld, fiter, fdefault, fended>>

io_gc(h) == /\ h <= fmade /\ (fended \/ h \in fheld \/ ~Referred(h))
            /\ fptr[h] /\ aux_close(h)
            /\ UNCHANGED <<fclose, fmade, fheld, fiter, fdefault, fended>>

FilesAtClose == /\ ~fended /\ fended' = TRUE
                /\ fheld' = {} /\ fiter' = {}
                /\ UNCHANGED <<fptr, fclose, ffile, fmade, fdefault>>

FilesNext == \/ io_open \/ io_lines \/ FilesAtClose
             \/ \E h \in Handles : f_lines(h) \/ io_close(h) \/ ForgetHandle(h) \/ io_gc(h)
             \/ \E s \in Streams : SetDefaultByName(s) \/ GetDefault(s)
             \/ \E s \in Streams, h \in Handles : SetDefault(s, h)
             \/ \E it \in fiter, eof \in BOOLEAN : io_readline(it, eof)
             \/ \E it \in fiter : ForgetIterator(it)

FilesSpec == FilesInit /\ [][FilesNext]_fileVars

(* A handle's pointer is NULL exactly when no FILE is open for it, whichever   *)
(* of the four ways closed it: no FILE is closed twice, closed by the function *)
(* of another kind, used after it was closed, or left open without a handle.   *)
HandlesTrue == \A h \in Handles :
  /\ fptr[h] <=> ffile[h] \in DOMAIN Closers
  /\ ffile[h] # "misused"
================================================================================
