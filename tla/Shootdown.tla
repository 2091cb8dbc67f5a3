----------------------------- MODULE Shootdown -----------------------------
(***************************************************************************)
(* The leases, the TLB shootdown and the instruction synchronisation of    *)
(* kernel/src/core/memory/nest/identity/, with the trampoline that enters  *)
(* and leaves an address space and the numbers (ASIDs) that name one.      *)
(*                                                                         *)
(* A store waits in the hart's store buffer (wait) until it is drained; a  *)
(* fence holds the hart back until its buffer is empty.  Stores to         *)
(* different places drain in any order.  A hart may fill its TLB at any    *)
(* time from the tables of its satp, also between the csrw that changes    *)
(* satp and the sfence.vma after it.  A version stands for what a table or *)
(* the code held when it was written.                                      *)
(***************************************************************************)
EXTENDS Integers, FiniteSets, SequencesExt

CONSTANTS Harts,      \* the harts of the board
          First,      \* the hart that boots the others
          Spaces,     \* the user ASIDs
          MaxStamp,   \* bound: the writes to tables and code
          Ops         \* what is done: "table" and "code" writes

VARIABLES lease,      \* the ASID a hart announces, or Vacant
          syncAsked,  \* PerHart.instruction_sync
          online,     \* ONLINE
          wait,       \* the stores of a hart that are not in memory yet
          table,      \* what the tables of an ASID hold: the stamp of the last write
          code,       \* the writes to the code, by stamp
          tlb,        \* the translations a hart holds: <<ASID, version>>
          icache,     \* the writes to the code a hart is sure to fetch
          mode,       \* where in the trampoline a hart is
          aim,        \* the user space a hart enters or runs
          used,       \* the ASIDs ASID_ALLOCATOR has given out
          told,       \* the version every hart must know, by ASID
          codeTold,   \* the writes to the code every hart must know
          shot,       \* the shootdown or synchronisation of a hart
          stamp       \* the last stamp given out

coreVars == <<lease, syncAsked, online, wait, table, code>>
hartVars == <<tlb, icache, mode, aim>>
bookVars == <<used, told, codeTold, shot, stamp>>
vars == <<coreVars, hartVars, bookVars>>

Kernel == 0
Vacant == -1
Asids == Spaces \cup {Kernel}
Nothing == [at |-> "idle", of |-> Kernel, ver |-> 0, rest |-> {}, mask |-> {}]

Assumptions ==
    /\ First \in Harts /\ IsFiniteSet(Harts)
    /\ Spaces \subseteq Nat \ {0}
    /\ MaxStamp \in Nat \ {0}

Init ==
    /\ lease = [h \in Harts |-> IF h = First THEN Kernel ELSE Vacant]
    /\ syncAsked = [h \in Harts |-> TRUE]
    /\ online = {First}
    /\ wait = [h \in Harts |-> <<>>]
    /\ table = [a \in Asids |-> 0] /\ code = {}
    /\ tlb = [h \in Harts |-> {}] /\ icache = [h \in Harts |-> {}]
    /\ mode = [h \in Harts |-> IF h = First THEN "kernel" ELSE "unborn"]
    /\ aim = [h \in Harts |-> Kernel]
    /\ used = {} /\ told = [a \in Asids |-> 0] /\ codeTold = {}
    /\ shot = [h \in Harts |-> Nothing] /\ stamp = 0

----------------------------------------------------------------------------
(* Memory. *)

Write(h, place, value) == wait' = [wait EXCEPT ![h] = Append(@, [place |-> place, value |-> value])]

\* The memory takes a store of a hart; two stores to one place keep their order.
Drain(h) ==
    \E i \in DOMAIN wait[h] :
        LET w == wait[h][i] IN
        /\ \A j \in 1..(i - 1) : wait[h][j].place # w.place
        /\ wait' = [wait EXCEPT ![h] = RemoveAt(@, i)]
        /\ lease' = IF w.place[1] = "lease" THEN [lease EXCEPT ![w.place[2]] = w.value] ELSE lease
        /\ syncAsked' = IF w.place[1] = "sync" THEN [syncAsked EXCEPT ![w.place[2]] = TRUE] ELSE syncAsked
        /\ table' = IF w.place[1] = "table" THEN [table EXCEPT ![w.place[2]] = w.value] ELSE table
        /\ code' = IF w.place[1] = "code" THEN code \cup {w.value} ELSE code
        /\ UNCHANGED <<online, hartVars, bookVars>>

\* As if fence_data were left out.
FenceSkipped(h) == h \in Harts
\* fence rw, rw: what the hart wrote is in memory.
FenceData(h) == wait[h] = <<>>

\* flush: sfence.vma of one ASID, or of all for the kernel's.
Flush(h, a) == tlb' = [tlb EXCEPT ![h] = IF a = Kernel THEN {} ELSE {e \in @ : e[1] # a}]

Satp(h) == IF mode[h] \in {"switched", "user"} THEN aim[h] ELSE Kernel

\* The hart walks the tables of its satp and keeps what it finds.
Fill(h) ==
    /\ mode[h] \notin {"unborn", "marked", "off"}
    /\ <<Satp(h), table[Satp(h)]>> \notin tlb[h]
    /\ tlb' = [tlb EXCEPT ![h] = @ \cup {<<Satp(h), table[Satp(h)]>>}]
    /\ UNCHANGED <<coreVars, icache, mode, aim, bookVars>>

----------------------------------------------------------------------------
(* Entering and leaving an address space. *)

To(h, from, to) == mode[h] = from /\ mode' = [mode EXCEPT ![h] = to]

\* boot_main up to mark_online, an atomic fetch_or.
MarkOnline(h) ==
    /\ To(h, "unborn", "marked")
    /\ online' = online \cup {h}
    /\ UNCHANGED <<lease, syncAsked, wait, table, code, tlb, icache, aim, bookVars>>

\* The rest of boot_main: satp, sfence.vma, fence.i, occupy(kernel).
BootMain(h) ==
    /\ To(h, "marked", "entering")
    /\ icache' = [icache EXCEPT ![h] = code]
    /\ Flush(h, Kernel)
    /\ Write(h, <<"lease", h>>, Kernel)
    /\ UNCHANGED <<lease, syncAsked, online, table, code, aim, bookVars>>

\* occupy's fence, in boot_main and in trap_handler.
Entered(h) ==
    /\ To(h, "entering", "kernel")
    /\ FenceData(h)
    /\ aim' = [aim EXCEPT ![h] = Kernel]
    /\ UNCHANGED <<coreVars, tlb, icache, bookVars>>

\* resume: occupy(user ASID) stores the lease.
Resume(h, a) ==
    /\ shot[h] = Nothing
    /\ To(h, "kernel", "leasing")
    /\ a \in used
    /\ aim' = [aim EXCEPT ![h] = a]
    /\ Write(h, <<"lease", h>>, a)
    /\ UNCHANGED <<lease, syncAsked, online, table, code, tlb, icache, bookVars>>

\* __restore: a hart that was asked to clears the flag and fetches afresh.
SyncOwn(h) ==
    /\ syncAsked' = [syncAsked EXCEPT ![h] = FALSE]
    /\ icache' = IF syncAsked[h] THEN [icache EXCEPT ![h] = code] ELSE icache

\* occupy's fence, then __restore up to csrw satp.
Restore(h) ==
    /\ To(h, "leasing", "switched")
    /\ FenceData(h)
    /\ SyncOwn(h)
    /\ UNCHANGED <<lease, online, wait, table, code, tlb, aim, bookVars>>

\* __restore: sfence.vma after csrw satp, then sret.
Enter(h) ==
    /\ To(h, "switched", "user")
    /\ Flush(h, Kernel)
    /\ UNCHANGED <<coreVars, icache, aim, bookVars>>

\* __task_trap: csrw satp with the kernel's.
TaskTrap(h) ==
    /\ To(h, "user", "trapped")
    /\ UNCHANGED <<coreVars, tlb, icache, aim, bookVars>>

\* __task_trap: sfence.vma, then trap_handler's occupy(kernel) stores the lease.
TrapHandler(h) ==
    /\ To(h, "trapped", "entering")
    /\ Flush(h, Kernel)
    /\ Write(h, <<"lease", h>>, Kernel)
    /\ UNCHANGED <<lease, syncAsked, online, table, code, icache, aim, bookVars>>

\* vacate, by halt and by hunker: the hart does not come back.
Vacate(h) ==
    /\ h # First /\ shot[h] = Nothing
    /\ To(h, "kernel", "off")
    /\ Write(h, <<"lease", h>>, Vacant)
    /\ UNCHANGED <<lease, syncAsked, online, table, code, tlb, icache, aim, bookVars>>

----------------------------------------------------------------------------
(* ASIDs. *)

Idle(h) == mode[h] = "kernel" /\ shot[h] = Nothing
Busy(a) == \E h \in Harts : shot[h].at # "idle" /\ shot[h].of = a
Stamp == stamp < MaxStamp /\ stamp' = stamp + 1

\* try_allocate, and the tables the new space starts with.
TryAllocate(h, a) ==
    /\ Idle(h) /\ a \notin used /\ ~Busy(a)
    /\ Stamp
    /\ used' = used \cup {a}
    /\ table' = [table EXCEPT ![a] = stamp']
    /\ told' = [told EXCEPT ![a] = stamp']
    /\ UNCHANGED <<lease, syncAsked, online, wait, code, hartVars, codeTold, shot>>

----------------------------------------------------------------------------
(* Shootdown. *)

\* A caller that holds the nest's lock changes an entry of its tables.
WritePte(h, a) ==
    /\ "table" \in Ops /\ Idle(h) /\ a \in used \cup {Kernel} /\ ~Busy(a)
    /\ Stamp
    /\ Write(h, <<"table", a>>, stamp')
    /\ shot' = [shot EXCEPT ![h] = [Nothing EXCEPT !.at = "flush", !.of = a, !.ver = stamp']]
    /\ UNCHANGED <<lease, syncAsked, online, table, code, hartVars, used, told, codeTold>>

\* deallocate, by retire: no hart runs the space any more.
Deallocate(h, a) ==
    /\ Idle(h) /\ a \in used /\ ~Busy(a)
    /\ \A x \in Harts : aim[x] # a
    /\ shot' = [shot EXCEPT ![h] = [Nothing EXCEPT !.at = "flush", !.of = a, !.ver = told[a]]]
    /\ used' = used \ {a}
    /\ UNCHANGED <<coreVars, hartVars, told, codeTold, stamp>>

\* shootdown: the fence, and the flush of this hart.
ShootdownLocal(h) ==
    /\ shot[h].at = "flush"
    /\ FenceData(h)
    /\ Flush(h, shot[h].of)
    /\ shot' = [shot EXCEPT ![h].at = "scan", ![h].rest = Harts \ {h}]
    /\ UNCHANGED <<coreVars, icache, mode, aim, used, told, codeTold, stamp>>

\* shootdown: the harts whose TLB may hold the ASID.
Concerned(x, a) == (a = Kernel /\ x \in online) \/ lease[x] = a

\* shootdown: one round of the loop over the harts.
ShootdownScan(h, x) ==
    /\ shot[h].at = "scan" /\ x \in shot[h].rest
    /\ shot' = [shot EXCEPT ![h].rest = @ \ {x},
                            ![h].mask = IF Concerned(x, shot[h].of) THEN @ \cup {x} ELSE @]
    /\ UNCHANGED <<coreVars, hartVars, used, told, codeTold, stamp>>

\* RemoteSfenceVma(Asid): the firmware has one hart of the mask flush.
RemoteSfence(h, x) ==
    /\ shot[h].at = "scan" /\ shot[h].rest = {} /\ x \in shot[h].mask
    /\ Flush(x, shot[h].of)
    /\ shot' = [shot EXCEPT ![h].mask = @ \ {x}]
    /\ UNCHANGED <<coreVars, icache, mode, aim, used, told, codeTold, stamp>>

\* shootdown returns Ok.
ShootdownOk(h) ==
    /\ shot[h].at = "scan" /\ shot[h].rest = {} /\ shot[h].mask = {}
    /\ told' = [told EXCEPT ![shot[h].of] = shot[h].ver]
    /\ shot' = [shot EXCEPT ![h] = Nothing]
    /\ UNCHANGED <<coreVars, hartVars, used, codeTold, stamp>>

\* The call fails: shootdown returns Deaf, and an ASID to be freed stays in use.
ShootdownDeaf(h) ==
    /\ shot[h].at = "scan" /\ shot[h].rest = {} /\ shot[h].mask # {}
    /\ shot' = [shot EXCEPT ![h] = Nothing]
    /\ used' = used \cup ({shot[h].of} \ {Kernel})
    /\ UNCHANGED <<coreVars, hartVars, told, codeTold, stamp>>

----------------------------------------------------------------------------
(* Instruction synchronisation. *)

\* A caller writes instructions and calls sync_instructions.
WriteCode(h) ==
    /\ "code" \in Ops /\ Idle(h) /\ Stamp
    /\ Write(h, <<"code", stamp'>>, stamp')
    /\ shot' = [shot EXCEPT ![h] = [Nothing EXCEPT !.at = "ask", !.ver = stamp', !.rest = Harts]]
    /\ UNCHANGED <<lease, syncAsked, online, table, code, hartVars, used, told, codeTold>>

\* request_instruction_sync: the flag of one hart, after the first fence.
RequestSync(h, x) ==
    /\ shot[h].at = "ask" /\ x \in shot[h].rest
    /\ shot[h].rest = Harts => FenceData(h)
    /\ Write(h, <<"sync", x>>, TRUE)
    /\ shot' = [shot EXCEPT ![h].rest = @ \ {x}]
    /\ UNCHANGED <<lease, syncAsked, online, table, code, hartVars, used, told, codeTold, stamp>>

\* sync_instructions: the second fence and fence.i.
FenceI(h) ==
    /\ shot[h].at = "ask" /\ shot[h].rest = {}
    /\ FenceData(h)
    /\ icache' = [icache EXCEPT ![h] = code]
    /\ shot' = [shot EXCEPT ![h].at = "look", ![h].rest = Harts \ {h}]
    /\ UNCHANGED <<coreVars, tlb, mode, aim, used, told, codeTold, stamp>>

\* sync_instructions: one round of the loop over the harts.
SyncScan(h, x) ==
    /\ shot[h].at = "look" /\ x \in shot[h].rest
    /\ shot' = [shot EXCEPT ![h].rest = @ \ {x},
                            ![h].mask = IF lease[x] # Vacant THEN @ \cup {x} ELSE @]
    /\ UNCHANGED <<coreVars, hartVars, used, told, codeTold, stamp>>

\* RemoteFenceI on one hart of the mask.
RemoteFenceI(h, x) ==
    /\ shot[h].at = "look" /\ shot[h].rest = {} /\ x \in shot[h].mask
    /\ icache' = [icache EXCEPT ![x] = code]
    /\ shot' = [shot EXCEPT ![h].mask = @ \ {x}]
    /\ UNCHANGED <<coreVars, tlb, mode, aim, used, told, codeTold, stamp>>

\* sync_instructions returns Ok, or an error when the call failed.
SyncDone(h) ==
    /\ shot[h].at = "look" /\ shot[h].rest = {}
    /\ codeTold' = IF shot[h].mask = {} THEN codeTold \cup {shot[h].ver} ELSE codeTold
    /\ shot' = [shot EXCEPT ![h] = Nothing]
    /\ UNCHANGED <<coreVars, hartVars, used, told, stamp>>

----------------------------------------------------------------------------

Trampoline(h) ==
    \/ MarkOnline(h) \/ BootMain(h) \/ Entered(h) \/ Restore(h) \/ Enter(h)
    \/ TaskTrap(h) \/ TrapHandler(h) \/ Vacate(h)

Next ==
    \E h \in Harts :
        \/ Drain(h) \/ Fill(h) \/ Trampoline(h)
        \/ WriteCode(h) \/ FenceI(h) \/ SyncDone(h)
        \/ ShootdownLocal(h) \/ ShootdownOk(h) \/ ShootdownDeaf(h)
        \/ \E a \in Spaces : Resume(h, a) \/ TryAllocate(h, a) \/ Deallocate(h, a)
        \/ \E a \in Asids : WritePte(h, a)
        \/ \E x \in Harts :
              \/ ShootdownScan(h, x) \/ RemoteSfence(h, x)
              \/ RequestSync(h, x) \/ SyncScan(h, x) \/ RemoteFenceI(h, x)

----------------------------------------------------------------------------
(* Properties. *)

TypeOK ==
    /\ lease \in [Harts -> Asids \cup {Vacant}] /\ aim \in [Harts -> Asids]
    /\ online \subseteq Harts /\ syncAsked \in [Harts -> BOOLEAN]
    /\ table \in [Asids -> 0..stamp] /\ told \in [Asids -> 0..stamp]
    /\ used \subseteq Spaces

\* Once shootdown has returned Ok, no hart translates by an older entry of that
\* ASID, whatever it was doing meanwhile: entering the space, leaving it,
\* booting, or flushing by itself.  This includes an ASID that was given back and
\* names a new space now.
Confirmed == \A h \in Harts : \A e \in tlb[h] : e[2] >= told[e[1]]

\* Once sync_instructions has returned Ok, no hart in user mode fetches older code.
CodeFresh == \A h \in Harts : mode[h] = "user" => codeTold \subseteq icache[h]

=============================================================================
