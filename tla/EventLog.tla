------------------------------- MODULE EventLog -------------------------------
(***************************************************************************)
(* The append-only record behind every governance store: sessions,         *)
(* proposals, mandates and promotions each keep one file of events, a      *)
(* cached array of its lines, and nothing else.  State is folded from the  *)
(* array.  The array is read from the file on first use; an append queues  *)
(* on the store's chain of writes, and its line is pushed onto the array   *)
(* the caller holds once the file has it.                                  *)
(*                                                                         *)
(* Landing on the file and the push are one step: the continuation that    *)
(* pushes runs before the next write of the chain can reach the file, and  *)
(* nobody else reads the array's length.                                   *)
(*                                                                         *)
(* Nothing keeps a second call from reading the file while a first read is *)
(* out.  Where that loses a line is kept in the history variable           *)
(* `overtaken`.                                                            *)
(***************************************************************************)
EXTENDS Naturals, Sequences

CONSTANTS
    Callers,    \* the calls that use the store
    Events      \* what may be recorded

VARIABLES
    disk,     \* the file: the events appended so far
    warm,     \* the cache has been filled
    lines,    \* the cached array; empty while not warm
    reading,  \* caller -> its read of the whole file
    copy,     \* caller -> what that read returned
    chain,    \* appends queued on the store's chain of writes
    held,     \* caller -> the array its append will push onto
    overtaken \* history: the cache was replaced by a read older than an append

logVars == << disk, warm, lines, reading, copy, chain, held, overtaken >>

ReadStates == {"none", "asked", "answered"}
Arrays == {"none", "current", "replaced"}
Entry == [by : Callers, event : Events]

LogTypeOK ==
    /\ disk \in Seq(Events)
    /\ warm \in BOOLEAN
    /\ lines \in Seq(Events)
    /\ reading \in [Callers -> ReadStates]
    /\ copy \in [Callers -> Seq(Events)]
    /\ chain \in Seq(Entry)
    /\ held \in [Callers -> Arrays]
    /\ overtaken \in BOOLEAN

LogInit ==
    /\ disk = << >>
    /\ warm = FALSE
    /\ lines = << >>
    /\ reading = [c \in Callers |-> "none"]
    /\ copy = [c \in Callers |-> << >>]
    /\ chain = << >>
    /\ held = [c \in Callers |-> "none"]
    /\ overtaken = FALSE

-----------------------------------------------------------------------------
(* Filling the cache.                                                      *)

(* A call that finds no cached lines asks for the file.  Nothing stops a   *)
(* second call from doing the same before the first read is back.          *)
Ask(c) ==
    /\ ~ warm
    /\ reading[c] = "none"
    /\ reading' = [reading EXCEPT ![c] = "asked"]
    /\ UNCHANGED << disk, warm, lines, copy, chain, held, overtaken >>

FileRead(c) ==
    /\ reading[c] = "asked"
    /\ reading' = [reading EXCEPT ![c] = "answered"]
    /\ copy' = [copy EXCEPT ![c] = disk]
    /\ UNCHANGED << disk, warm, lines, chain, held, overtaken >>

(* The array read becomes the cache, whatever the cache was.  An append    *)
(* under way keeps the array it took.  If another's read had filled the    *)
(* cache and an append was queued since, its line is lost to the cache.    *)
Take(c) ==
    /\ reading[c] = "answered"
    /\ warm' = TRUE
    /\ lines' = copy[c]
    /\ reading' = [reading EXCEPT ![c] = "none"]
    /\ copy' = [copy EXCEPT ![c] = << >>]
    /\ held' = [d \in Callers |-> IF held[d] = "current" THEN "replaced" ELSE held[d]]
    /\ overtaken' = (warm /\ (copy[c] # disk \/ chain # << >>))
    /\ UNCHANGED << disk, chain >>

Fill(c) == Ask(c) \/ FileRead(c) \/ Take(c)

-----------------------------------------------------------------------------
(* Appending.                                                              *)

(* Every public method folds first, so the cache is filled by now.         *)
Enqueue(c, event) ==
    /\ warm
    /\ reading[c] = "none"
    /\ held[c] = "none"
    /\ chain' = Append(chain, [by |-> c, event |-> event])
    /\ held' = [held EXCEPT ![c] = "current"]
    /\ UNCHANGED << disk, warm, lines, reading, copy, overtaken >>

Released == [held EXCEPT ![Head(chain).by] = "none"]

(* Mutant: the line is pushed before the write, and stays if it fails.     *)
AppendFailsPushed ==
    /\ chain # << >>
    /\ lines' = Append(lines, Head(chain).event)
    /\ chain' = Tail(chain)
    /\ held' = Released
    /\ UNCHANGED << disk, warm, reading, copy, overtaken >>

(* The write fails and its caller is told; the chain goes on.              *)
AppendFails ==
    /\ chain # << >>
    /\ chain' = Tail(chain)
    /\ held' = Released
    /\ UNCHANGED << disk, warm, lines, reading, copy, overtaken >>

Land ==
    /\ chain # << >>
    /\ disk' = Append(disk, Head(chain).event)
    /\ lines' = IF held[Head(chain).by] = "current"
                  THEN Append(lines, Head(chain).event)
                  ELSE lines
    /\ chain' = Tail(chain)
    /\ held' = Released
    /\ UNCHANGED << warm, reading, copy, overtaken >>

(* The process ends: the file is what is left.                             *)
Restart ==
    /\ warm' = FALSE
    /\ lines' = << >>
    /\ reading' = [c \in Callers |-> "none"]
    /\ copy' = [c \in Callers |-> << >>]
    /\ chain' = << >>
    /\ held' = [c \in Callers |-> "none"]
    /\ overtaken' = FALSE
    /\ UNCHANGED disk

LogNext ==
    \/ \E c \in Callers : Fill(c)
    \/ \E c \in Callers, e \in Events : Enqueue(c, e)
    \/ AppendFails
    \/ Land
    \/ Restart

LogSpec == LogInit /\ [][LogNext]_logVars

-----------------------------------------------------------------------------
(* What the stores rely on.                                                *)

(* Once filled, the cache is the file, so a check folded from memory is a  *)
(* check of the durable record - until a read that was out while another   *)
(* one let an append through takes the cache back behind that append.      *)
CacheIsTheRecord == (warm /\ ~ overtaken) => lines = disk
=============================================================================
