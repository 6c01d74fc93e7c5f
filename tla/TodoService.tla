----------------------------- MODULE TodoService -----------------------------
(***************************************************************************)
(* The services that the generator writes (templates/generator.go): the    *)
(* example service of a new project, which keeps todos, and the ones that  *)
(* "svcforge add service" adds, which keep items.  Repository, business    *)
(* logic and gRPC handler are the same but for the item's lack of a done   *)
(* flag; kind says which one runs.                                         *)
(*                                                                         *)
(* Each repository method holds the mutex from beginning to end and is one *)
(* step.  An update reads in one step and writes in another.  The content  *)
(* is left out: it goes the way of the title, without being validated.     *)
(* So are timestamps.                                                      *)
(***************************************************************************)
EXTENDS Integers, FiniteSets, SequencesExt

CONSTANTS
    Clients,          \* callers of UpdateTodo, each with one call at a time
    Radix,            \* ids are written in this base: 10 in the code
    IntHalf,          \* int32 is -IntHalf .. IntHalf - 1: 2^31 in the code
    defaultPageSize,  \* 20 in the code
    maxPageSize,      \* 100 in the code
    MaxSeq,           \* bound: ids given out
    MaxWrites         \* bound: successful updates and deletions

ASSUME TodoAssumption ==
    /\ Radix \in Nat /\ Radix > 1
    /\ MaxSeq \in Nat /\ MaxSeq >= 3 /\ MaxWrites \in Nat
    /\ {IntHalf, defaultPageSize, maxPageSize} \subseteq Nat \ {0}
    /\ defaultPageSize <= maxPageSize

VARIABLES
    kind,     \* "todo" or "item"
    seq,      \* the repository's counter; its value as a string is the last id
    todos,    \* the repository's map, by the number the id stands for
    call,     \* call[c]: what client c's update has read and changed, if it is in progress
    missing,  \* history: ids that some caller was told are NOT_FOUND, after they were given out
    up,       \* FALSE once a handler has panicked: nothing recovers it
    writes,   \* history: updates and deletions so far
    deleted,  \* history: ids whose deletion was answered with OK
    quiet     \* history: updates in progress whose id nobody else has written

todoVars == <<kind, seq, todos, call, up, writes, missing, deleted, quiet>>

\* Titles: empty (a field that was not sent), usable, and over 128 characters.
Titles   == {"", "title", "long"}
Todo     == [title : {"seed", "title"}, done : BOOLEAN]
NoCall   == [id |-> 0, todo |-> [title |-> "seed", done |-> FALSE]]

-----------------------------------------------------------------------------
(* TodoRepo, ItemRepo. *)

\* strconv.FormatInt: the digits of an id.
formatInt[n \in 0 .. MaxSeq] ==
    IF n < Radix THEN <<n>> ELSE Append(formatInt[n \div Radix], n % Radix)

\* Go's < on strings.
TextLess(s, t) ==
    \E i \in 1 .. Len(t) : /\ i <= Len(s) + 1
                           /\ \A j \in 1 .. i - 1 : s[j] = t[j]
                           /\ i = Len(s) + 1 \/ s[i] < t[i]

seedTodos == <<[title |-> "seed", done |-> TRUE],
               [title |-> "seed", done |-> FALSE],
               [title |-> "seed", done |-> FALSE]>>

seedItems == <<[title |-> "seed", done |-> FALSE],
               [title |-> "seed", done |-> FALSE]>>

\* Todos that a listing is about.
matching(onlyPending) == {id \in DOMAIN todos : ~ (onlyPending /\ todos[id].done)}

\* matched[offset:end].
pageOf(s, offset, limit) ==
    IF offset >= Len(s) THEN <<>>
    ELSE SubSeq(s, offset + 1, IF offset + limit < Len(s) THEN offset + limit ELSE Len(s))

\* Those of ids that a listing shows before id: the greater strings.
before(ids, id) == {i \in ids : TextLess(formatInt[id], formatInt[i])}

\* sort.Slice: ids in the order of a listing.
sorted(ids) ==
    [k \in 1 .. Cardinality(ids) |-> CHOOSE id \in ids : Cardinality(before(ids, id)) = k - 1]

\* The matching ids in order, and the page of them.
List(onlyPending, offset, limit) ==
    LET matched == sorted(matching(onlyPending))
    IN  [todos |-> pageOf(matched, offset, limit), total |-> Len(matched)]

ListItemRepo(offset, limit) == List(FALSE, offset, limit)

Create(todo) ==
    /\ seq < MaxSeq
    /\ seq' = seq + 1
    /\ todos' = [id \in DOMAIN todos \cup {seq + 1} |->
                     IF id = seq + 1 THEN todo ELSE todos[id]]

FindByID(id) == id \in DOMAIN todos

\* Fault: the update inserts what is not there.
UpdateUpserts(id, todo) == todos' = (id :> todo) @@ todos

\* Overwrites every mutable field of a todo that exists.
Update(id, todo) ==
    /\ id \in DOMAIN todos
    /\ todos' = [todos EXCEPT ![id] = todo]

DeleteTodoRepo(id) ==
    /\ id \in DOMAIN todos
    /\ todos' = [i \in DOMAIN todos \ {id} |-> todos[i]]

-----------------------------------------------------------------------------
(* TodoService, ItemService. *)

validateTitle(title) == title \notin {"", "long"}

normalizePage(page, pageSize) ==
    [page     |-> IF page < 1 THEN 1 ELSE page,
     pageSize |-> IF pageSize < 1 \/ pageSize > maxPageSize THEN defaultPageSize ELSE pageSize]

\* Fault: the first page is skipped.
offsetOfFromOne(p) == p.page * p.pageSize

\* (page - 1) * pageSize in int32 arithmetic.
offsetOf(p) == (((p.page - 1) * p.pageSize + IntHalf) % (2 * IntHalf)) - IntHalf

listTodos(onlyPending, page, pageSize) ==
    LET p == normalizePage(page, pageSize) IN List(onlyPending, offsetOf(p), p.pageSize)

listItems(page, pageSize) ==
    LET p == normalizePage(page, pageSize) IN ListItemRepo(offsetOf(p), p.pageSize)

\* Fault: a title that was not sent is cleared.
editTodoClears(todo, input) == [title |-> input.title, done |-> input.done]

\* A title that was sent replaces the one that was read; the done flag always does.
editTodo(todo, input) == [title |-> IF input.title = "" THEN todo.title ELSE input.title,
                          done  |-> input.done]

editItem(item, input) == [item EXCEPT !.title = IF input.title = "" THEN @ ELSE input.title]

-----------------------------------------------------------------------------
(* ExampleHandler and the handler of an added service. *)

\* Domain errors as codes.
toGRPCError(err) == IF err = "ErrTodoNotFound" THEN "NOT_FOUND" ELSE "INVALID_ARGUMENT"

\* The answer to a request about id.  NOT_FOUND is also said of the ids that are still to
\* be given out; the history keeps the others.
Answer(code, id) ==
    missing' = IF code = "NOT_FOUND" THEN missing \cup ({id} \cap (1 .. seq)) ELSE missing

history == <<writes, deleted, quiet>>

\* What is asked for: ids given out so far, the next one and, as 0, a text that is never an
\* id; small and very large pages; page sizes up to one more than is allowed.
Requested == 0 .. seq + 1
Pages     == {0, 1, 2, IntHalf - 1}
PageSizes == 0 .. maxPageSize + 1

\* Somebody has written id: the updates of it that are in progress are not undisturbed.
Disturb(id) == quiet' = {u \in quiet : call[u].id # id}

createTodo(title) ==
    /\ up
    /\ \/ /\ validateTitle(title)
          /\ Create([title |-> title, done |-> FALSE])
          /\ Answer("OK", seq + 1)
       \/ /\ ~ validateTitle(title)
          /\ Answer(toGRPCError("ErrInvalidTitle"), 0)
          /\ UNCHANGED <<seq, todos>>
    /\ UNCHANGED <<kind, call, up, history>>

CreateTodo == kind = "todo" /\ \E title \in Titles : createTodo(title)
CreateItem == kind = "item" /\ \E name \in Titles : createTodo(name)

getTodo(id) ==
    /\ up
    /\ Answer(IF FindByID(id) THEN "OK" ELSE toGRPCError("ErrTodoNotFound"), id)
    /\ UNCHANGED <<kind, seq, todos, call, up, history>>

GetTodo == kind = "todo" /\ \E id \in Requested : getTodo(id)
GetItem == kind = "item" /\ \E id \in Requested : getTodo(id)

\* A negative offset is out of the slice's bounds: the handler panics.
listPage(page, pageSize) ==
    /\ up
    /\ IF offsetOf(normalizePage(page, pageSize)) < 0
       THEN up' = FALSE /\ UNCHANGED missing
       ELSE Answer("OK", 0) /\ UNCHANGED up
    /\ UNCHANGED <<kind, seq, todos, call, history>>

ListTodos == kind = "todo" /\ \E page \in Pages, pageSize \in PageSizes : listPage(page, pageSize)
ListItems == kind = "item" /\ \E page \in Pages, pageSize \in PageSizes : listPage(page, pageSize)

\* The first half of an update: find the todo, look at the title, change the copy.
readTodo(c, id, title, edited) ==
    /\ up /\ call[c].id = 0 /\ writes < MaxWrites
    /\ \/ /\ ~ FindByID(id)
          /\ Answer(toGRPCError("ErrTodoNotFound"), id)
          /\ UNCHANGED <<call, quiet>>
       \/ /\ FindByID(id) /\ title # "" /\ ~ validateTitle(title)
          /\ Answer(toGRPCError("ErrInvalidTitle"), id)
          /\ UNCHANGED <<call, quiet>>
       \/ /\ FindByID(id) /\ (title = "" \/ validateTitle(title))
          /\ call' = [call EXCEPT ![c] = [id |-> id, todo |-> edited]]
          /\ quiet' = quiet \cup {c}
          /\ UNCHANGED missing
    /\ UNCHANGED <<kind, seq, todos, up, writes, deleted>>

UpdateTodo(c) ==
    /\ kind = "todo"
    /\ \E id \in Requested, input \in [title : Titles, done : BOOLEAN] :
           readTodo(c, id, input.title, editTodo(todos[id], input))

UpdateItem(c) ==
    /\ kind = "item"
    /\ \E id \in Requested, input \in [title : Titles] :
           readTodo(c, id, input.title, editItem(todos[id], input))

\* The second half: the copy is saved, if the todo still exists.
saveTodo(c) ==
    LET id == call[c].id IN
    /\ up /\ id # 0
    /\ \/ /\ Update(id, call[c].todo)
          /\ Answer("OK", id)
          /\ writes' = writes + 1
          /\ Disturb(id)
       \/ /\ ~ FindByID(id)
          /\ Answer(toGRPCError("ErrTodoNotFound"), id)
          /\ quiet' = quiet \ {c}
          /\ UNCHANGED <<todos, writes>>
    /\ call' = [call EXCEPT ![c] = NoCall]
    /\ UNCHANGED <<kind, seq, up, deleted>>

deleteTodo(id) ==
    /\ up
    /\ \/ /\ writes < MaxWrites
          /\ DeleteTodoRepo(id)
          /\ Answer("OK", 0)
          /\ writes' = writes + 1 /\ deleted' = deleted \cup {id}
          /\ Disturb(id)
       \/ /\ ~ FindByID(id)
          /\ Answer(toGRPCError("ErrTodoNotFound"), id)
          /\ UNCHANGED <<todos, history>>
    /\ UNCHANGED <<kind, seq, call, up>>

DeleteTodo == kind = "todo" /\ \E id \in Requested : deleteTodo(id)
DeleteItem == kind = "item" /\ \E id \in Requested : deleteTodo(id)

\* Module.Init of either service: the repository is created with its seed data.
TodoInit ==
    /\ kind \in {"todo", "item"}
    /\ todos = IF kind = "todo" THEN seedTodos ELSE seedItems
    /\ seq = Len(todos)
    /\ call = [c \in Clients |-> NoCall]
    /\ up = TRUE
    /\ writes = 0 /\ missing = {} /\ deleted = {} /\ quiet = {}

TodoNext == \/ CreateTodo \/ GetTodo \/ ListTodos \/ DeleteTodo
        \/ CreateItem \/ GetItem \/ ListItems \/ DeleteItem
        \/ \E c \in Clients : UpdateTodo(c) \/ UpdateItem(c) \/ saveTodo(c)

TodoSpec == TodoInit /\ [][TodoNext]_todoVars

-----------------------------------------------------------------------------
(* Properties. *)

TodoTypeOK ==
    /\ kind \in {"todo", "item"} /\ up \in BOOLEAN
    /\ seq \in 0 .. MaxSeq /\ writes \in 0 .. MaxWrites + Cardinality(Clients)
    /\ DOMAIN todos \subseteq 1 .. seq /\ \A id \in DOMAIN todos : todos[id] \in Todo
    /\ call \in [Clients -> [id : 0 .. MaxSeq, todo : Todo]]
    /\ missing \cup deleted \subseteq 1 .. seq /\ quiet \subseteq Clients

\* The repository holds exactly what was created and whose deletion was not
\* confirmed: an update that read a todo before it was deleted does not bring it
\* back, no id is given out twice, and NOT_FOUND is final for an id that had been given
\* out.  (Of the next id it is said too, until CreateTodo gives it out.)
DeletedStaysDeleted ==
    /\ DOMAIN todos = (1 .. seq) \ deleted
    /\ missing \cap DOMAIN todos = {}

\* An update between whose read and write nobody else wrote the same todo keeps the
\* title unless it was given another.  (With a write in between, the other's title is
\* overwritten with the one that was read before it.)
UndisturbedUpdateKeepsTitle ==
    [][\A c \in quiet : call'[c].id = 0 /\ call[c].id \in DOMAIN todos =>
           todos'[call[c].id].title \in {todos[call[c].id].title, "title"}]_todoVars

\* What the pages of a listing show: page, place on the page, id.
Shown(onlyPending, pageSize) ==
    UNION {LET page == IF kind = "todo" THEN listTodos(onlyPending, p, pageSize).todos
                       ELSE listItems(p, pageSize).todos
           IN  {<<p, k, page[k]>> : k \in DOMAIN page} : p \in 1 .. MaxSeq}

\* Reading the pages one after the other, whatever the page size, yields each
\* matching todo once and nothing else.
PagesPartition ==
    \A onlyPending \in BOOLEAN, pageSize \in PageSizes :
        LET shown == Shown(onlyPending, pageSize)
        IN  /\ {s[3] : s \in shown} = matching(onlyPending /\ kind = "todo")
            /\ \A s, t \in shown : s[3] = t[3] => s = t

\* A listing is sorted by age, the newest todo first.
NewestFirst ==
    LET all == List(FALSE, 0, MaxSeq).todos
    IN  \A i, j \in DOMAIN all : i < j => all[i] > all[j]
=============================================================================
