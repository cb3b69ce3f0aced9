------------------------------- MODULE Memory -------------------------------
(***************************************************************************)
(* The shadow memory (pintool/memory.h, memory.cpp) and the hooks of the   *)
(* system calls that feed and move it (third_party/libdft/syscall_hook.cpp *)
(* and syscall_desc.cpp, called from ThreadContext::onSyscallExit).        *)
(*                                                                         *)
(* Each byte of the program's memory has a cell that holds the expression  *)
(* of the byte; here an expression is a byte of the input, as a hook makes *)
(* it, or none.  Next to the tool's state stands what the kernel does:     *)
(* which byte of the input a byte of memory really is.                     *)
(***************************************************************************)
EXTENDS Integers, FiniteSets, FiniteSetsExt

CONSTANTS
    PageSize,       \* kPageSize
    Page,           \* the pages of the address space
    ImageLow,       \* the first and the last page of the image,
    ImageHigh,      \* which is mapped from the start
    HeapStart,      \* the first page of the heap, brk_start_
    HeapPages,      \* the number of pages that the heap may have
    MmapPage,       \* the pages that mmap may return
    VdsoPage,       \* the page of the vdso
    StackPages,     \* kStackSize in pages
    InputLen,       \* the bytes of the input
    Fd,             \* descriptors, among them 0
    Buffer,         \* addresses that system calls and moves are given
    Size,           \* the lengths that mmap is given
    MaxCalls        \* bound on the actions

ImagePage == ImageLow..ImageHigh
HeapPage == HeapStart..(HeapStart + HeapPages - 1)

ASSUME SizeAssumption ==
    /\ PageSize \in Nat \ {0} /\ Size \subseteq Nat \ {0}
    /\ StackPages \in Nat /\ InputLen \in Nat /\ MaxCalls \in Nat

ASSUME SpaceAssumption ==
    /\ Page \subseteq Nat /\ IsFiniteSet(Page)
    /\ {ImageLow, ImageHigh, HeapStart, HeapPages} \subseteq Nat
    /\ ImagePage \cup HeapPage \cup MmapPage \cup {VdsoPage} \subseteq Page
    /\ HeapPage \cap (ImagePage \cup MmapPage \cup {VdsoPage}) = {}
    /\ VdsoPage \notin ImagePage \cup MmapPage

ASSUME ArgumentAssumption == Buffer \subseteq Nat /\ Fd \subseteq Nat /\ 0 \in Fd

VARIABLES
    hookFs,         \* the input is a file that is opened; otherwise it is stdin
    shadow,         \* table: page_table_; cells: the shadow pages in use
    brkPage,        \* brk_page_: its block, or Null
    brkEnd,         \* brk_end_, in pages
    off,            \* off_
    fdSet,          \* kFdSet
    running,        \* the tool has not faulted or given up
    mapped,         \* the pages that the program has
    mem,            \* the byte of the input that each byte of memory is
    brkNow,         \* the program break
    files,          \* the descriptors: closed, another file, or a description of the input
    pos,            \* the file offset of each description
    doubts,         \* the cases met that the code leaves open
    calls

toolVars == <<shadow, brkPage, brkEnd, off, fdSet, running>>
kernelVars == <<mapped, mem, brkNow, files, pos>>
vars == <<hookFs, toolVars, kernelVars, doubts, calls>>

Offset == 0..(PageSize - 1)
PageOf(a) == a \div PageSize
OffsetOf(a) == a % PageSize
PageUp(a) == PageOf(a + PageSize - 1)
Addr == {p * PageSize + o : p \in Page, o \in Offset}

(* Expressions: none, what an uninitialised cell holds, a byte of the input *)
None == -9
Junk == -8
Blank == [o \in Offset |-> None]

(* Pointers to shadow pages: page j of block b.  Block 0 is what is no block. *)
Null == <<0, 0>>
Unmapped == <<0, 1>>
Zero == <<0, 2>>

Description == 1..2
Closed == 0
Other == 9

-----------------------------------------------------------------------------
(* Shadow pages *)

(* getExprFromMem: a page that was never mapped reads as zero_page_. *)
Cell(s, a) == IF s.table[PageOf(a)] \in DOMAIN s.cells THEN s.cells[s.table[PageOf(a)]][OffsetOf(a)] ELSE None

(* A read faults on unmapped_page_ and on what was freed, a write of an      *)
(* expression also on zero_page_.                                            *)
Faults(s, vals) ==
    \E a \in DOMAIN vals : LET page == s.table[PageOf(a)]
                           IN  page \notin DOMAIN s.cells /\ (page \in {Null, Zero} => vals[a] # None)

(* setExprToMem and clearExprFromMem, address by address *)
Stored(s, vals) ==
    [table |-> s.table,
     cells |-> [page \in DOMAIN s.cells |-> [o \in Offset |->
        LET hit == {a \in DOMAIN vals : s.table[PageOf(a)] = page /\ OffsetOf(a) = o}
        IN  IF hit = {} THEN s.cells[page][o] ELSE vals[Max(hit)]]]]

(* Blocks that nothing points to are of no account. *)
InUse(s, heap) ==
    [table |-> s.table,
     cells |-> [page \in {x \in DOMAIN s.cells : x[1] = heap[1] \/ \E p \in Page : s.table[p] = x} |-> s.cells[page]]]

(* Each page and the heap have one block at most, so one of these is free. *)
Fresh(s) ==
    CHOOSE b \in 1..(Cardinality(Page) + 2) :
        b \notin {s.table[p][1] : p \in Page} \cup {x[1] : x \in DOMAIN s.cells}

Joined(old, new) == [x \in DOMAIN old \cup DOMAIN new |-> IF x \in DOMAIN old THEN old[x] ELSE new[x]]
BlockOf(b, n, content) == [x \in {<<b, j>> : j \in 0..(n - 1)} |-> content]

(* Memory::mmap, with the last address *)
Mmap(s, start, end) ==
    LET b == Fresh(s)
        first == PageOf(start)
    IN  [table |-> [p \in Page |-> IF p \in first..PageOf(end) THEN <<b, p - first>> ELSE s.table[p]],
         cells |-> Joined(s.cells, BlockOf(b, PageOf(end) - first + 1, Blank))]

(* n pages of host memory from ptr on *)
Host(ptr, n) == {<<ptr[1], ptr[2] + i>> : i \in 0..(n - 1)}

(* deallocPages of n pages from ptr on, as far as they are in the block *)
Freed(cells, ptr, n) == [x \in DOMAIN cells \ Host(ptr, n) |-> cells[x]]

(* The n pages of the program from first on do not have the n shadow pages   *)
(* from that of first on: deallocPages unmaps what lies behind the block, or *)
(* unmapped_page_.  Below address NULL plus two pages there is nothing.      *)
Overrun(s, first, n) ==
    s.table[first] # Null /\ ~ (Host(s.table[first], n) \subseteq DOMAIN s.cells)

(* What lies there is memory of the tool, or the first pages of a block. *)
Behind(s, first, n) ==
    {{}} \cup (IF Overrun(s, first, n)
               THEN {Host(<<x[1], 0>>, n) : x \in DOMAIN s.cells} ELSE {})

Without(s, lost) ==
    [table |-> s.table, cells |-> [x \in DOMAIN s.cells \ lost |-> s.cells[x]]]

Munmap(s, first, n) ==
    [table |-> [p \in Page |-> IF p \in first..(first + n - 1) THEN Unmapped ELSE s.table[p]],
     cells |-> Freed(s.cells, s.table[first], n)]

(* Mutant: the shadow of the old mapping is not copied. *)
MremapNoCopy(s, old, n, new, m) == Mmap(Munmap(s, old, n), new * PageSize, (new + m) * PageSize - 1)

(* Memory::mremap: each page of the new mapping gets the first page. *)
Mremap(s, old, n, new, m) ==
    LET b == Fresh(s)
        from == s.table[old]
        copied(j) == IF j >= n THEN Blank
                     ELSE IF <<from[1], from[2] + j>> \in DOMAIN s.cells
                     THEN s.cells[<<from[1], from[2] + j>>] ELSE [o \in Offset |-> Junk]
    IN  [table |-> [p \in Page |-> IF p \in new..(new + m - 1) THEN <<b, 0>>
                                   ELSE IF p \in old..(old + n - 1) THEN Unmapped ELSE s.table[p]],
         cells |-> Joined(Freed(s.cells, from, n), [x \in {<<b, j>> : j \in 0..(m - 1)} |-> copied(x[2])])]

(* Mutant: the last page of the heap gets no shadow page. *)
BrkExclusive(s, b, n, added) ==
    [table |-> [p \in Page |-> IF p \in HeapStart..(HeapStart + n - 2) THEN <<b, p - HeapStart>> ELSE s.table[p]],
     cells |-> Joined(s.cells, BlockOf(b, n, added))]

(* Memory::brk for a heap of n pages: what realloc adds is not cleared, and  *)
(* the page after the old end is unmapped too unless the heap grows.         *)
Brk(s, b, n, added) ==
    LET kept == [x \in {y \in DOMAIN s.cells : y[1] # b \/ y[2] < n} |-> s.cells[x]]
    IN  [table |-> [p \in Page |-> IF p \in HeapStart..(HeapStart + n - 1) THEN <<b, p - HeapStart>>
                                   ELSE IF p \in (HeapStart + n)..brkEnd THEN Unmapped ELSE s.table[p]],
         cells |-> Joined(kept, BlockOf(b, n, added))]

-----------------------------------------------------------------------------
(* Memory::initialize, loadImage and initializeBrk, hookSyscalls: one of     *)
(* the options stdin and file.  No address has been given out otherwise.     *)
Init ==
    /\ hookFs \in BOOLEAN
    /\ shadow = InUse(Mmap([table |-> [p \in Page |-> IF p = VdsoPage THEN Zero ELSE Null], cells |-> <<>>],
                           ImageLow * PageSize, ImageHigh * PageSize), Null)
    /\ brkPage = Null /\ brkEnd = HeapStart /\ brkNow = HeapStart * PageSize
    /\ off = 0
    /\ fdSet = IF hookFs THEN {} ELSE {0}
    /\ running = TRUE
    /\ mapped = ImagePage \cup {VdsoPage}
    /\ mem = [a \in Addr |-> None]
    /\ files = [f \in Fd |-> IF f # 0 THEN Closed ELSE IF hookFs THEN Other ELSE 1]
    /\ pos = [d \in Description |-> 0]
    /\ doubts = {} /\ calls = 0

Step(doubt) ==
    /\ running /\ calls < MaxCalls
    /\ calls' = calls + 1
    /\ doubts' = doubts \cup doubt
    /\ UNCHANGED hookFs

When(condition, name) == IF condition THEN {name} ELSE {}

Owned(a, n) == \A x \in a..(a + n - 1) : PageOf(x) \in mapped \ {VdsoPage}

(* The tool gives n addresses from a on their cells, or it faults. *)
Assign(s, vals) ==
    IF Faults(s, vals) THEN running' = FALSE /\ shadow' = InUse(s, brkPage)
    ELSE running' = running /\ shadow' = InUse(Stored(s, vals), brkPage)

MakeExpr(a, n, from) == [x \in a..(a + n - 1) |-> from + x - a]
Clear(a, n) == [x \in a..(a + n - 1) |-> None]
Filled(vals) == [x \in Addr |-> IF x \in DOMAIN vals THEN vals[x] ELSE mem[x]]

-----------------------------------------------------------------------------
(* Descriptors *)

NextFd == Min({f \in Fd : files[f] = Closed})
FreeFd == \E f \in Fd : files[f] = Closed

(* postOpenHook: openat(2) has no hook. *)
OpenInput ==
    \E hooked \in BOOLEAN, d \in Description :
        /\ Step(When(~hooked, "openat") \cup When(hooked /\ fdSet # {}, "several"))
        /\ hookFs /\ FreeFd
        /\ \A f \in Fd : files[f] # d
        /\ files' = [files EXCEPT ![NextFd] = d]
        /\ pos' = [pos EXCEPT ![d] = 0]
        /\ fdSet' = IF hooked THEN fdSet \cup {NextFd} ELSE fdSet
        /\ UNCHANGED <<shadow, brkPage, brkEnd, off, running, mapped, mem, brkNow>>

(* Another file, the path of which may contain that of the input *)
OpenOther ==
    \E similar \in BOOLEAN :
        /\ Step(When(similar /\ hookFs, "similar"))
        /\ FreeFd
        /\ files' = [files EXCEPT ![NextFd] = Other]
        /\ fdSet' = IF similar /\ hookFs THEN fdSet \cup {NextFd} ELSE fdSet
        /\ UNCHANGED <<shadow, brkPage, brkEnd, off, running, mapped, mem, brkNow, pos>>

(* postDupHook, for dup2 and dup3 too, which close g first.  The hook of     *)
(* fcntl(2) knows nothing of F_DUPFD.                                        *)
Dup ==
    \E f, g \in Fd, hooked \in BOOLEAN :
        /\ Step(When(g \in fdSet /\ files[g] # files[f], "replaced")
                \cup When(~hooked /\ f \in fdSet, "fcntl"))
        /\ f # g /\ files[f] # Closed
        /\ hooked \/ files[g] = Closed
        /\ files' = [files EXCEPT ![g] = files[f]]
        /\ fdSet' = IF hooked /\ f \in fdSet THEN fdSet \cup {g} ELSE fdSet
        /\ UNCHANGED <<shadow, brkPage, brkEnd, off, running, mapped, mem, brkNow, pos>>

(* Mutant: the offset stays where it is. *)
CloseKeepOffset(f) == off

(* postCloseHook *)
CloseOffset(f) == IF f \in fdSet THEN 0 ELSE off

Close ==
    \E f \in Fd :
        /\ Step(When(f \in fdSet /\ fdSet # {f}, "several"))
        /\ files[f] # Closed
        /\ files' = [files EXCEPT ![f] = Closed]
        /\ fdSet' = fdSet \ {f}
        /\ off' = CloseOffset(f)
        /\ UNCHANGED <<shadow, brkPage, brkEnd, running, mapped, mem, brkNow, pos>>

(* What the kernel copies to a: n bytes of the input from o on, or others *)
Kernel(f, a, n, o) == IF files[f] = Other THEN Clear(a, n) ELSE MakeExpr(a, n, o)
Available(f, n, o) == IF files[f] = Other THEN n ELSE Min({n, InputLen - o})

(* postReadHook *)
Read ==
    \E f \in Fd, a \in Buffer, n \in 1..2 :
        LET o == IF files[f] = Other THEN 0 ELSE pos[files[f]]
            ret == Available(f, n, o)
        IN  /\ Step({})
            /\ files[f] # Closed
            /\ ret > 0 /\ Owned(a, ret)
            /\ mem' = Filled(Kernel(f, a, ret, o))
            /\ pos' = IF files[f] = Other THEN pos ELSE [pos EXCEPT ![files[f]] = @ + ret]
            /\ Assign(shadow, IF f \in fdSet THEN MakeExpr(a, ret, off) ELSE Clear(a, ret))
            /\ off' = IF f \in fdSet THEN off + ret ELSE off
            /\ UNCHANGED <<brkPage, brkEnd, fdSet, mapped, brkNow, files>>

(* postReadvHook: into one byte at a, then into another at b *)
Readv ==
    \E f \in Fd, a, b \in Buffer :
        LET o == IF files[f] = Other THEN 0 ELSE pos[files[f]]
            ret == Available(f, 2, o)
            vals(from) == [x \in IF ret = 1 THEN {a} ELSE {a, b} |-> IF x = a THEN from ELSE from + 1]
            none == [x \in DOMAIN vals(0) |-> None]
        IN  /\ Step({})
            /\ files[f] # Closed /\ a # b
            /\ ret > 0 /\ Owned(a, 1) /\ Owned(b, 1)
            /\ mem' = Filled(IF files[f] = Other THEN none ELSE vals(o))
            /\ pos' = IF files[f] = Other THEN pos ELSE [pos EXCEPT ![files[f]] = @ + ret]
            /\ Assign(shadow, IF f \in fdSet THEN vals(off) ELSE none)
            /\ off' = IF f \in fdSet THEN off + ret ELSE off
            /\ UNCHANGED <<brkPage, brkEnd, fdSet, mapped, brkNow, files>>

(* postPreadHook: off_ is set to the argument and back.  The hook of         *)
(* preadv(2) clears the buffers, whatever is read.                           *)
Pread ==
    \E f \in Fd, a \in Buffer, o \in 0..(InputLen - 1), vector \in BOOLEAN :
        /\ Step(When(vector /\ files[f] # Other, "preadv"))
        /\ files[f] # Closed /\ Owned(a, 1)
        /\ mem' = Filled(Kernel(f, a, 1, o))
        /\ Assign(shadow, IF f \in fdSet /\ ~vector THEN MakeExpr(a, 1, o) ELSE Clear(a, 1))
        /\ UNCHANGED <<brkPage, brkEnd, off, fdSet, mapped, brkNow, files, pos>>

(* postLSeekHook, which is there for files only, takes a failure for -1. *)
SeekFrom(f, ret) == IF hookFs /\ f \in fdSet THEN ret ELSE off

LSeek ==
    \E f \in Fd, ret \in (-1)..InputLen :
        /\ Step(When(ret = -1 /\ hookFs /\ f \in fdSet, "failed") \cup When(ret # -1 /\ ~hookFs, "stdin"))
        /\ files[f] \notin {Closed, Other}
        /\ pos' = IF ret = -1 THEN pos ELSE [pos EXCEPT ![files[f]] = ret]
        /\ off' = SeekFrom(f, ret)
        /\ UNCHANGED <<shadow, brkPage, brkEnd, fdSet, running, mapped, mem, brkNow, files>>

-----------------------------------------------------------------------------
(* Mappings *)
Within(p, n, pages) == p..(p + n - 1) \subseteq pages
Bytes(pages) == {a \in Addr : PageOf(a) \in pages}

(* postMMapHook: at an address of the kernel's choice, or at a fixed one     *)
(* over what is there.  The kernel does not move a mapping that grows down.  *)
MMap ==
    \E p \in MmapPage, size \in Size, growsDown \in BOOLEAN :
        LET n == PageUp(size)
            start == p * PageSize
        IN  /\ Step(When(growsDown, "down"))
            /\ Within(p, n, MmapPage)
            /\ mapped' = mapped \cup p..(p + n - 1)
            /\ mem' = [a \in Addr |-> IF PageOf(a) \in p..(p + n - 1) THEN None ELSE mem[a]]
            /\ shadow' = InUse(IF growsDown THEN Mmap(shadow, start - size + 1, start)
                               ELSE Mmap(shadow, start, start + size - 1), brkPage)
            /\ UNCHANGED <<brkPage, brkEnd, off, fdSet, running, brkNow, files, pos>>

(* postMMapHookForFile: the whole length is taken for the start of the input. *)
MMapFile ==
    \E p \in MmapPage, f \in Fd, o \in {0, PageSize}, size \in Size :
        LET n == PageUp(size)
            start == p * PageSize
            s == Mmap(shadow, start, start + size - 1)
            tracked == hookFs /\ f \in fdSet
            byte(a) == IF o + a - start < InputLen THEN o + a - start ELSE None
        IN  /\ Step(When(o # 0, "offset") \cup When(size > InputLen, "end")
                    \cup When(~tracked \/ size < n * PageSize, "rest"))
            /\ Within(p, n, MmapPage)
            /\ files[f] \notin {Closed, Other}
            /\ mapped' = mapped \cup p..(p + n - 1)
            /\ mem' = [a \in Addr |-> IF PageOf(a) \in p..(p + n - 1) THEN byte(a) ELSE mem[a]]
            /\ Assign(s, MakeExpr(start, IF tracked THEN size ELSE 0, 0))
            /\ UNCHANGED <<brkPage, brkEnd, off, fdSet, brkNow, files, pos>>

(* postMUnmapHook, also of what is not mapped, and of several mappings *)
MUnmap ==
    \E p \in MmapPage, n \in 1..2 :
        /\ Step(When(Overrun(shadow, p, n), "overrun"))
        /\ Within(p, n, MmapPage)
        /\ mapped' = mapped \ p..(p + n - 1)
        /\ mem' = [a \in Addr |-> IF PageOf(a) \in p..(p + n - 1) THEN None ELSE mem[a]]
        /\ \E lost \in Behind(shadow, p, n) :
              shadow' = InUse(Without(Munmap(shadow, p, n), lost), brkPage)
        /\ running' \in IF Overrun(shadow, p, n) THEN BOOLEAN ELSE {running}
        /\ UNCHANGED <<brkPage, brkEnd, off, fdSet, brkNow, files, pos>>

(* postMRemapHook, to where it was or to where nothing is.  The copy of a    *)
(* mapping that shrinks does not fit the new block, and that of more than    *)
(* one mapping reads beyond the old one, so it may fault.                    *)
MRemap ==
    \E p, q \in MmapPage, n, m \in 1..2 :
        LET old == p..(p + n - 1)
            new == q..(q + m - 1)
        IN  /\ Step(When(m > 1, "shared") \cup When(m < n, "shrunk")
                    \cup When(Overrun(shadow, p, n), "overrun"))
            /\ Within(p, n, MmapPage \cap mapped) /\ Within(q, m, MmapPage)
            /\ IF p = q THEN new \cap mapped \subseteq old ELSE new \cap mapped = {}
            /\ mapped' = (mapped \ old) \cup new
            /\ mem' = [a \in Addr |->
                    IF PageOf(a) \in new
                    THEN LET from == a + (p - q) * PageSize IN IF PageOf(from) \in old THEN mem[from] ELSE None
                    ELSE IF PageOf(a) \in old THEN None ELSE mem[a]]
            /\ \E lost \in Behind(shadow, p, n) :
                  shadow' = InUse(Without(Mremap(shadow, p, n, q, m), lost), brkPage)
            /\ running' \in IF m < n \/ Overrun(shadow, p, n) THEN BOOLEAN
                            ELSE {shadow.table[p] \in DOMAIN shadow.cells}
            /\ UNCHANGED <<brkPage, brkEnd, off, fdSet, brkNow, files, pos>>

(* postBrkHook: the program asks for another break or for the present one.   *)
(* realloc to nothing frees the block and returns NULL, which is taken for   *)
(* lack of memory.                                                           *)
SetBrk ==
    \E ret \in (HeapStart * PageSize)..((HeapStart + HeapPages) * PageSize), added \in {None, Junk} :
        LET n == PageUp(ret) - HeapStart
            heap == HeapStart..(HeapStart + n - 1)
            b == IF brkPage = Null THEN Fresh(shadow) ELSE brkPage[1]
            s == Brk(shadow, b, n, [o \in Offset |-> added])
            skip == ret = brkEnd * PageSize
            beyond == (mapped \ HeapPage) \cap PageUp(ret)..brkEnd
            grows == PageUp(ret) > brkEnd
        IN  /\ Step(When(added = Junk, "realloc") \cup When(~skip /\ beyond # {}, "beyond")
                    \cup When(~skip /\ n = 0 /\ brkPage # Null, "empty"))
            /\ added = Junk => ~skip /\ grows
            /\ brkNow' = ret
            /\ mapped' = (mapped \ HeapPage) \cup heap
            /\ mem' = [a \in Addr |-> IF PageOf(a) \in HeapPage \ (mapped \cap heap) THEN None ELSE mem[a]]
            /\ IF skip THEN UNCHANGED <<shadow, brkPage, brkEnd, running>>
               ELSE IF n = 0 /\ brkPage # Null THEN running' = FALSE /\ UNCHANGED <<shadow, brkPage, brkEnd>>
               ELSE /\ shadow' = InUse(s, <<b, 0>>)
                    /\ brkPage' = <<b, 0>>
                    /\ brkEnd' = PageUp(ret)
                    /\ UNCHANGED running
            /\ UNCHANGED <<off, fdSet, files, pos>>

(* allocateThreadContext, allocateStack: the stack pointer of a new thread.  *)
(* What the pages held is forgotten.                                         *)
ThreadStart ==
    \E sp \in Bytes(mapped \cap MmapPage) :
        LET top == PageUp(sp) + 1
            taken == (top - StackPages)..top \cap Page
        IN  /\ Step(When(\E a \in Bytes(taken) : mem[a] # None, "stack") \cup When(taken \cap HeapPage # {}, "stack"))
            /\ shadow' = InUse(Mmap(shadow, (top - StackPages) * PageSize, top * PageSize), brkPage)
            /\ UNCHANGED <<brkPage, brkEnd, off, fdSet, running, kernelVars>>

-----------------------------------------------------------------------------
(* The program moves a byte (setExprToMem), or stores one of its own. *)
Move ==
    \E a, b \in Buffer, own \in BOOLEAN :
        /\ Step({})
        /\ a # b /\ Owned(a, 1) /\ Owned(b, 1)
        /\ mem' = [mem EXCEPT ![b] = IF own THEN None ELSE mem[a]]
        /\ Assign(shadow, [x \in {b} |-> IF own THEN None ELSE Cell(shadow, a)])
        /\ UNCHANGED <<brkPage, brkEnd, off, fdSet, mapped, brkNow, files, pos>>

(* Another call that fills an argument: clearArgs.  That it failed is not    *)
(* seen, as ret is unsigned.  readlink, ioctl and the calls that are not in  *)
(* the table clear nothing.                                                  *)
OtherCall ==
    \E a \in Buffer, fails, hooked \in BOOLEAN :
        /\ Step(When(hooked /\ fails /\ mem[a] # None, "error")
                \cup When(~hooked /\ ~fails /\ Cell(shadow, a) # None, "unhooked"))
        /\ Owned(a, 1)
        /\ mem' = IF fails THEN mem ELSE [mem EXCEPT ![a] = None]
        /\ IF hooked THEN Assign(shadow, Clear(a, 1)) ELSE UNCHANGED <<shadow, running>>
        /\ UNCHANGED <<brkPage, brkEnd, off, fdSet, mapped, brkNow, files, pos>>

(* A call with a hook fails.  PIN_GetSyscallReturn is -1 then, which every    *)
(* hook but that of lseek looks for first.                                   *)
FailedCall == Step({}) /\ UNCHANGED <<toolVars, kernelVars>>

Next ==
    \/ OpenInput \/ OpenOther \/ Dup \/ Close
    \/ Read \/ Readv \/ Pread \/ LSeek
    \/ MMap \/ MMapFile \/ MUnmap \/ MRemap \/ SetBrk \/ ThreadStart
    \/ Move \/ OtherCall \/ FailedCall

Spec == Init /\ [][Next]_vars

-----------------------------------------------------------------------------
(* Each variable has its type: every entry of the page table is a pointer,   *)
(* and every shadow page has a cell for each byte of a page.                 *)
IsShadow(s) ==
    /\ s.table \in [Page -> Nat \X Nat]
    /\ DOMAIN s.cells \subseteq (Nat \ {0}) \X Nat
    /\ \A x \in DOMAIN s.cells : s.cells[x] \in [Offset -> Int]

TypeOK ==
    /\ hookFs \in BOOLEAN /\ running \in BOOLEAN
    /\ IsShadow(shadow)
    /\ brkPage \in Nat \X {0} /\ brkEnd \in Nat /\ brkNow \in Nat
    /\ off \in Int /\ fdSet \subseteq Fd
    /\ mapped \subseteq Page
    /\ mem \in [Addr -> Int]
    /\ files \in [Fd -> {Closed, Other} \cup Description]
    /\ pos \in [Description -> Nat]
    /\ calls \in Nat

(* The cases that the code leaves open: the file offset is one for all       *)
(* descriptors and follows no failed, unhooked or overridden call, and what  *)
(* such a call wrote keeps its expression ...                                *)
OffsetDoubts == {"several", "similar", "replaced", "fcntl", "failed", "stdin", "offset", "end", "unhooked"}
(* ... a shadow page is shared, freed too early, unmapped or uninitialised   *)
PageDoubts == {"down", "overrun", "shared", "shrunk", "beyond", "empty", "realloc", "stack"}

(* A cell never names a byte of the input that is not there: a constraint on *)
(* a byte read from memory is one on the byte of the file that the kernel    *)
(* put there, whatever was read, sought, mapped, moved and unmapped before.  *)
ShadowIsInput ==
    doubts \cap (OffsetDoubts \cup PageDoubts) = {} =>
        \A a \in Bytes(mapped) : Cell(shadow, a) \in {None, mem[a]}

(* No byte of the input is lost: where the kernel put one, or the program    *)
(* moved it, there is its expression.                                        *)
InputIsTracked ==
    doubts = {} => \A a \in Bytes(mapped) : mem[a] # None => Cell(shadow, a) = mem[a]

(* Each page of the program has a shadow page of its own that is in use, so  *)
(* that no store is seen at another address and the tool does not fault.     *)
PagesBacked ==
    doubts \cap PageDoubts = {} =>
        /\ running
        /\ \A p \in mapped \ {VdsoPage} :
              /\ shadow.table[p] \in DOMAIN shadow.cells
              /\ \A q \in mapped \ {p} : shadow.table[q] # shadow.table[p]
=============================================================================
