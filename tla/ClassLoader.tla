---------------------------- MODULE ClassLoader ----------------------------
(***************************************************************************)
(* The table of classes of vm/classloader.c: classloader_load,             *)
(* classloader_find_class, find_class and classloader_add_to_cache.  Many  *)
(* threads ask for the same class; one of them loads it while the others   *)
(* wait on classloader_cond, and the last waiter of a class that was not   *)
(* found removes its entry and tries again itself.                         *)
(*                                                                         *)
(* A key of the table (class loader and name) is a member of Names.  A     *)
(* step is one critical section of classloader_mutex.  Loading a class may *)
(* load another one: its superclass, or the element class of an array.     *)
(***************************************************************************)
EXTENDS Integers, Sequences, FiniteSets

CONSTANTS
  Threads,
  Names,     \* keys of the hash map `classes'
  JavaNames, \* names whose loader is a Java object: load_class_with
  Before,    \* name -> class loaded before the lookup (array element), or NULL
  During,    \* name -> class loaded while it is being loaded, or NULL
  Entries,   \* memory for struct classloader_class
  NULL

ASSUME LoaderAssumption ==
  /\ IsFiniteSet(Threads) /\ IsFiniteSet(Entries)
  /\ JavaNames \subseteq Names
  /\ Before \in [Names -> Names \cup {NULL}]
  /\ During \in [Names -> Names \cup {NULL}]
  /\ NULL \notin Threads \cup Names \cup Entries /\ NULL \notin Names \X Nat

VARIABLES
  classes,   \* the hash map: name -> entry or NULL
  entry,     \* entry -> its fields
  free,      \* entries that are not allocated
  asleep,    \* threads in pthread_cond_wait
  stack,     \* thread -> its calls, innermost first
  ret,       \* thread -> the class the last call returned, or NULL
  defined    \* name -> how many classes were put into the table for it

table == <<classes, entry, free>>
vars == <<table, asleep, stack, ret, defined>>

\* A class is known by its name and by which definition of the name it is.
Class == Names \X Nat
Entry == [status : {"loading", "loaded", "notFound"}, class : Class \cup {NULL},
          nrWaiting : Nat, loadingThread : Threads \cup {NULL}]
PC == {"start", "beforeCall", "find", "waiting", "body", "bodyCall", "finish",
       "failed", "javaCall", "return"}
Frame == [fn : {"load", "query"}, name : Names, pc : PC, entry : Entries \cup {NULL}]

\* Every variable keeps its type.
TypeOK ==
  /\ classes \in [Names -> Entries \cup {NULL}]
  /\ entry \in [Entries -> Entry]
  /\ free \subseteq Entries
  /\ asleep \subseteq Threads
  /\ stack \in [Threads -> Seq(Frame)]
  /\ ret \in [Threads -> Class \cup {NULL}]
  /\ defined \in [Names -> Nat]

Zeroed == [status |-> "loading", class |-> NULL, nrWaiting |-> 0,
           loadingThread |-> NULL]

Init ==
  /\ classes = [n \in Names |-> NULL]
  /\ entry = [e \in Entries |-> Zeroed]
  /\ free = Entries
  /\ asleep = {}
  /\ stack = [t \in Threads |-> <<>>]
  /\ ret = [t \in Threads |-> NULL]
  /\ defined = [n \in Names |-> 0]

-----------------------------------------------------------------------------
(* The call stack of a thread                                              *)

Top(t) == Head(stack[t])
At(t, label) == stack[t] # <<>> /\ Top(t).pc = label
Name(t) == Top(t).name

NewFrame(f, n) ==
  [fn |-> f, name |-> n, pc |-> IF f = "load" THEN "start" ELSE "find",
   entry |-> NULL]

GotoWith(t, label, e) ==
  /\ stack' = [stack EXCEPT ![t] =
                 <<[Top(t) EXCEPT !.pc = label, !.entry = e]>> \o Tail(stack[t])]
  /\ UNCHANGED ret

Goto(t, label) == GotoWith(t, label, Top(t).entry)

Call(t, label, f, n) ==
  /\ stack' = [stack EXCEPT ![t] =
                 <<NewFrame(f, n), [Top(t) EXCEPT !.pc = label]>> \o Tail(stack[t])]
  /\ UNCHANGED ret

\* Where a call that waited for another one goes on
Resume(label, value) ==
  IF label = "beforeCall" THEN IF value = NULL THEN "return" ELSE "find"
  ELSE IF label = "bodyCall" THEN IF value = NULL THEN "failed" ELSE "finish"
  ELSE IF value = NULL THEN "body" ELSE "return"

Return(t, value) ==
  /\ ret' = [ret EXCEPT ![t] = value]
  /\ IF Len(stack[t]) = 1
       THEN stack' = [stack EXCEPT ![t] = <<>>]
       ELSE stack' = [stack EXCEPT ![t] =
              <<[stack[t][2] EXCEPT !.pc = Resume(stack[t][2].pc, value)]>>
                \o Tail(Tail(stack[t]))]

-----------------------------------------------------------------------------
(* classloader_load up to the lookup                                       *)

\* A thread needs class n: classloader_load, or a query of its loader with
\* classloader_find_class.
Request(t, f, n) ==
  /\ stack[t] = <<>>
  /\ stack' = [stack EXCEPT ![t] = <<NewFrame(f, n)>>]
  /\ UNCHANGED <<table, asleep, ret, defined>>

\* A Java class loader holds its monitor while it loads a class.
LoaderFree(t) ==
  \A u \in Threads \ {t} : \A i \in DOMAIN stack[u] :
    stack[u][i].fn = "load" /\ stack[u][i].name \in JavaNames
      => stack[u][i].pc = "start"

\* The class is left to a Java class loader, which first asks the VM for it;
\* or the element class of an array is loaded to learn its loader; or the
\* table is looked up.
Start(t) ==
  /\ At(t, "start")
  /\ \/ /\ Name(t) \in JavaNames /\ LoaderFree(t)
        /\ Call(t, "javaCall", "query", Name(t))
     \/ /\ Name(t) \notin JavaNames /\ Before[Name(t)] # NULL
        /\ Call(t, "beforeCall", "load", Before[Name(t)])
     \/ /\ Name(t) \notin JavaNames /\ Before[Name(t)] = NULL
        /\ Goto(t, "find")
  /\ UNCHANGED <<table, asleep, defined>>

-----------------------------------------------------------------------------
(* find_class and what follows it in the same critical section             *)

Status(e) == entry[e].status

\* The entry is being loaded by an outer call of this thread.
OwnLoading(t, e) == Status(e) = "loading" /\ entry[e].loadingThread = t

\* find_class gave NULL, with the table as `cs', the entries as `es' and the
\* free memory as `fr': classloader_find_class returns, classloader_load puts
\* a new entry into the table or, when hash_map_put has no memory for a new
\* key, drops the entry (it leaks: nothing refers to it again).
NotThere(t, cs, es, fr) ==
  \/ /\ Top(t).fn = "query"
     /\ Return(t, NULL)
     /\ classes' = cs /\ entry' = es /\ free' = fr
  \/ /\ Top(t).fn = "load" /\ cs[Name(t)] = NULL
     /\ Return(t, NULL)
     /\ classes' = cs /\ entry' = es /\ free' = fr
  \/ /\ Top(t).fn = "load"
     /\ \E e \in fr :
          /\ entry' = [es EXCEPT ![e] = [Zeroed EXCEPT !.loadingThread = t]]
          /\ free' = fr \ {e}
          /\ classes' = [cs EXCEPT ![Name(t)] = e]
          /\ GotoWith(t, "body", e)

\* remove_class and vm_free, then as if there had been no entry
RemoveAndGoOn(t, e, es) ==
  NotThere(t, [classes EXCEPT ![Name(t)] = NULL], es, free \cup {e})

\* An entry whose loading is over, `es' being the entries with this thread no
\* longer counted in nr_waiting: its class, or NULL when it was not found;
\* the last thread to leave removes an entry that was not found.
Found(t, e, es) ==
  IF es[e].status = "notFound" /\ es[e].nrWaiting = 0
    THEN RemoveAndGoOn(t, e, es)
    ELSE /\ Return(t, es[e].class)
         /\ entry' = es
         /\ UNCHANGED <<classes, free>>

\* Mutant of Find: loads a class that another thread is loading.
FindImpatient(t) ==
  LET e == classes[Name(t)] IN
  /\ At(t, "find")
  /\ IF e = NULL \/ Status(classes[Name(t)]) = "loading"
       THEN NotThere(t, classes, entry, free)
       ELSE Found(t, e, entry)
  /\ UNCHANGED <<asleep, defined>>

\* The lookup: no entry, or one that this thread itself is loading, is not
\* there; one that another thread is loading is waited for.
Find(t) ==
  LET e == classes[Name(t)] IN
  /\ At(t, "find")
  /\ \/ /\ e # NULL => OwnLoading(t, e)
        /\ NotThere(t, classes, entry, free)
        /\ UNCHANGED asleep
     \/ /\ e # NULL /\ Status(e) = "loading" /\ ~OwnLoading(t, e)
        /\ entry' = [entry EXCEPT ![e].nrWaiting = @ + 1]
        /\ asleep' = asleep \cup {t}
        /\ GotoWith(t, "waiting", e)
        /\ UNCHANGED <<classes, free>>
     \/ /\ e # NULL /\ Status(e) # "loading"
        /\ Found(t, e, entry)
        /\ UNCHANGED asleep
  /\ UNCHANGED defined

\* pthread_cond_wait returns without a broadcast.
SpuriousWakeup(t) ==
  /\ t \in asleep
  /\ asleep' = asleep \ {t}
  /\ UNCHANGED <<table, stack, ret, defined>>

\* A woken waiter tests the status again.
Waited(t) ==
  LET e == Top(t).entry IN
  /\ At(t, "waiting")
  /\ t \notin asleep
  /\ IF Status(e) = "loading"
       THEN asleep' = asleep \cup {t} /\ UNCHANGED <<table, stack, ret>>
       ELSE /\ Found(t, e, [entry EXCEPT ![e].nrWaiting = @ - 1])
            /\ UNCHANGED asleep
  /\ UNCHANGED defined

-----------------------------------------------------------------------------
(* Loading, outside the critical section, and its end                      *)

\* load_class or load_array_class, which may load another class first
Body(t) ==
  /\ At(t, "body")
  /\ IF During[Name(t)] = NULL THEN Goto(t, "finish")
                               ELSE Call(t, "bodyCall", "load", During[Name(t)])
  /\ UNCHANGED <<table, asleep, defined>>

NewClass(n) == <<n, defined[n] + 1>>

\* load_class or load_array_class has made one more class of this name.
Define(n) == defined' = [defined EXCEPT ![n] = @ + 1]

\* Mutant of Loaded: forgets the waiters.
LoadedSilently(t) ==
  LET e == Top(t).entry IN
  /\ At(t, "finish") /\ Name(t) \notin JavaNames
  /\ Define(Name(t))
  /\ entry' = [entry EXCEPT ![e].class = NewClass(Name(t)),
                            ![e].status = "loaded"]
  /\ Return(t, NewClass(Name(t)))
  /\ UNCHANGED <<classes, free, asleep>>

\* The class was loaded: its entry is completed and everybody is woken.
Loaded(t) ==
  LET e == Top(t).entry IN
  /\ At(t, "finish") /\ Name(t) \notin JavaNames
  /\ Define(Name(t))
  /\ entry' = [entry EXCEPT ![e].class = NewClass(Name(t)),
                            ![e].status = "loaded"]
  /\ asleep' = {}
  /\ Return(t, NewClass(Name(t)))
  /\ UNCHANGED <<classes, free>>

\* Mutant of NotLoaded: removes the entry whoever waits on it.
NotLoadedRemoves(t) ==
  LET e == Top(t).entry IN
  /\ At(t, "finish") \/ At(t, "failed")
  /\ Name(t) \notin JavaNames
  /\ classes' = [classes EXCEPT ![Name(t)] = NULL]
  /\ free' = free \cup {e}
  /\ asleep' = {}
  /\ Return(t, NULL)
  /\ UNCHANGED <<entry, defined>>

\* Mutant of NotLoaded: leaves the entry in the table for the next thread.
NotLoadedStays(t) ==
  LET e == Top(t).entry IN
  /\ At(t, "finish") \/ At(t, "failed")
  /\ Name(t) \notin JavaNames
  /\ entry' = [entry EXCEPT ![e].status = "notFound"]
  /\ asleep' = {}
  /\ Return(t, NULL)
  /\ UNCHANGED <<classes, free, defined>>

\* It was not: the entry goes, or stays for the threads that wait on it.
NotLoaded(t) ==
  LET e == Top(t).entry IN
  /\ At(t, "finish") \/ At(t, "failed")
  /\ Name(t) \notin JavaNames
  /\ IF entry[e].nrWaiting = 0
       THEN /\ classes' = [classes EXCEPT ![Name(t)] = NULL]
            /\ free' = free \cup {e}
            /\ UNCHANGED entry
       ELSE /\ entry' = [entry EXCEPT ![e].status = "notFound"]
            /\ UNCHANGED <<classes, free>>
  /\ asleep' = {}
  /\ Return(t, NULL)
  /\ UNCHANGED defined

\* A Java class loader defines the class: classloader_add_to_cache.
AddToCache(t) ==
  /\ At(t, "finish") /\ Name(t) \in JavaNames
  /\ \E e \in free :
       /\ entry' = [entry EXCEPT ![e] = [Zeroed EXCEPT
                      !.class = NewClass(Name(t)), !.status = "loaded",
                      !.loadingThread = t]]
       /\ free' = free \ {e}
       /\ classes' = [classes EXCEPT ![Name(t)] = e]
  /\ Define(Name(t))
  /\ Return(t, NewClass(Name(t)))
  /\ UNCHANGED asleep

\* It throws ClassNotFoundException, the VM has no memory for the entry of
\* the class it defined, or a call passes on what an inner one returned.
JavaReturn(t) ==
  /\ \/ At(t, "finish") /\ Name(t) \in JavaNames /\ Return(t, NULL)
     \/ At(t, "failed") /\ Name(t) \in JavaNames /\ Return(t, NULL)
     \/ At(t, "return") /\ Return(t, ret[t])
  /\ UNCHANGED <<table, asleep, defined>>

-----------------------------------------------------------------------------
Step(t) ==
  \/ Start(t) \/ Find(t) \/ Waited(t) \/ Body(t) \/ Loaded(t) \/ NotLoaded(t)
  \/ AddToCache(t) \/ JavaReturn(t)

Next ==
  \E t \in Threads :
    \/ Step(t)
    \/ SpuriousWakeup(t)
    \/ \E f \in {"load", "query"}, n \in Names : Request(t, f, n)

Spec == Init /\ [][Next]_vars

\* The scheduler runs every thread that can run.
FairSpec == Spec /\ \A t \in Threads : WF_vars(Step(t))

-----------------------------------------------------------------------------
(* Properties                                                              *)

Waiters(e) == {t \in Threads : At(t, "waiting") /\ Top(t).entry = e}

\* A class loader defines a class of one name once: threads that load it at
\* the same time, or again after a failure, get one class.
DefinedOnce == \A n \in Names : defined[n] <= 1

\* nr_waiting counts the threads that wait on an entry, and an entry that a
\* thread waits on or loads is not freed.
EntriesInUse ==
  /\ \A e \in Entries \ free : entry[e].nrWaiting = Cardinality(Waiters(e))
  /\ \A t \in Threads : \A i \in DOMAIN stack[t] : stack[t][i].entry \notin free

\* "Last thread removes the entry": a class that was not found stays in the
\* table only while somebody waits for it, so that it can be tried again.
NotFoundIsTransient ==
  \A n \in Names :
    classes[n] # NULL /\ Status(classes[n]) = "notFound"
      => entry[classes[n]].nrWaiting > 0

\* A thread waits for the monitor of a Java class loader, which nobody promises
\* to give it.
WaitsForLoader(t) == At(t, "start") /\ Name(t) \in JavaNames

\* Every load and every query comes back, failures, retries and waits for other
\* threads included, or waits for the monitor of a Java class loader: no
\* wakeup that find_class waits for is lost.
CallsEnd ==
  \A t \in Threads : stack[t] # <<>> ~> (stack[t] = <<>> \/ WaitsForLoader(t))
=============================================================================
