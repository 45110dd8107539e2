# A TLA+ model of tambourineman

tambourineman loads `.proto` files, turns JSON documents into protobuf messages
and back, and sends messages over HTTP. This directory holds a model of its
library and of the parts of the vendored JSON library it relies on, the checks
TLC makes of the model and the theorems TLAPS proves about it. Paths are
relative to the repository.

## 1. Inventory

| Component | State | Operations | Interacts with |
|---|---|---|---|
| Message serializer (`lib/src/protomessageserializer.cpp`) | a pointer to the message type; per call of `serializeMessage` the parsed document, the computed size, the output buffer, the recursion; per call of `readMessage` the document, the stream with its limit, the recursion | `serializeMessage`: validate, measure, allocate, write; `readMessage`: defaults, then one field per tag | reads the descriptor mirror; calls protobuf's wire-format functions and nlohmann::json; constructs a serializer for each nested message |
| Descriptor mirror (`lib/src/protofile.cpp`) | copies of names, pointers into protobuf's descriptor pool | constructors and getters; `messageType()` and `enumType()` build a new object at each call | built by the loader, read by the serializer |
| Proto file loader (`lib/src/protofileloader.cpp`) | path mappings, collected errors and warnings, the importer's pool | `loadFile`, `what()` | protobuf's importer, the file system |
| HTTP client (`lib/src/protomessagehttpclient.cpp`) | per call of `perform`: resolver, socket, buffer | `performGet`, `performPost` | any HTTP server |
| HTTP server (`test/src/httpserver.cpp`) | `done`, `started`, port, thread, mutex and condition variable, io_context, acceptor | `start`, `stop`, destructor; on its thread accept, read, handle, write | the only concurrent code of the repository; the tests run the client against it |
| JSON library (`lib/include/json.hpp`, vendored and changed in `operator==`) | per call of `parse` the lexer, a stack of brackets, a stack of pointers into the value, with a callback two more of what to keep; per call of `dump` a buffer and the state of a UTF-8 decoder; per iterator its value and a position | `parse` with and without a callback, `accept`, `dump`, `operator==`, `operator<`, JSON pointers, `patch`, `diff`, `merge_patch`, `flatten`, `unflatten`, `to_` and `from_` CBOR, MessagePack, UBJSON and BSON, iterators and the calls that change containers | called by the serializer and by the tests, which use a part of it |
| Qt user interface (`qt/`) | a stub model and QML | its `loadFile` only logs | nothing yet |

What is hard, and what makes each component correct:

* **Writing a message** takes two passes over the document. The first adds up
  the size, the second writes through a raw pointer into a string of that size,
  and computes each nested length again. The passes use different code for each
  field type. They must agree on what they visit, on what they refuse and on
  every size, at every depth; the output must be the protobuf encoding of the
  document.
* **Reading a message** must give back the document that was written. It ignores
  the result of the reads, fills in defaults first, stops at a zero tag, and
  reads nested messages by moving the limit of one shared stream: bytes of one
  message must not be read as part of another, and every call must end.
* **Loading** must resolve a file by its own include paths and report its own
  errors. Mappings, errors and parsed files accumulate over the life of a
  loader, and the descriptors handed out point into it.
* **The mirror** is made of messages that refer to themselves and to each other:
  its constructors must end, and what a caller reaches by following types must
  be there, also after later loads.
* **The HTTP server** has two threads that meet at a condition variable, at two
  atomic flags, and in `stop()`, which closes the acceptor under the server
  thread. It serves one connection at a time with blocking reads, and every
  error path leaves the accept loop. `start()` and `stop()` must return; calls
  must be answered or fail, not wait for ever.
* **The HTTP client** blocks without a timeout and fails by two kinds of
  exceptions, from which its caller must be able to tell what may have happened.
* **JSON**: `parse` keeps pointers into containers that still grow, and two
  stacks that must stay in step; `dump` copies into a buffer of fixed size and
  decodes UTF-8 byte by byte; numbers change their type by their magnitude and
  must come back with their value; comparisons convert between number types.
  Pointers are resolved by five loops that must agree; patches are run on a
  document that changes under them, by `operator[]`, which creates what is not
  there; the binary formats choose widths, counts and sizes in one function and
  write them in another, and read lengths they must not believe; an iterator is
  a pointer to a value that may change its type.

`PROJECT.json` lists the hazards line by line with the properties that cover
them.

## 2. Modules

Serializer:

| Module | What it is |
|---|---|
| `WireFormat` | protobuf's wire format (varints, tags, fixed-width and length-delimited values) as the serializer's calls rely on it; integer widths are constants |
| `WireReading` | the reading half: what the calls of `CodedInputStream` return and where they leave the stream, also when they fail |
| `MessageValues` | message types and JSON values; `findJsonMember`, the values both passes visit, `json::get` and the conversions of numbers and enumerators |
| `MessageWriter` | `serializeMessage` as a state machine |
| `MessageReader` | `readMessage` as a state machine |
| `Serialization` | what a call of either promises, in one step |
| `ProtobufEncoding` | the reference for writing: which documents represent a message and what the message's encoding is, by recursive functions over the document, independent of the passes |
| `WireFormatTheorems`, `MessageWriterTheorems`, `MessageReaderTheorems` | the inductive invariants, in named parts, and the proofs |
| `MCMessages`, `MCMessageWriter`, `MCMessageReader` | schemas, documents, inputs and the refinements for TLC; `MCMessageReader` also holds the reference for reading: which bytes are a message and what document they stand for, recursive over records |

Loader and mirror:

| Module | What it is |
|---|---|
| `ProtoImporter` | external: protobuf's `Importer` with its source tree, pool and error collector |
| `DescriptorMirror` | the constructors of `ProtoFile`, `ProtoMessage`, `MessageField`, `ProtoEnum`, and the walk through them |
| `ProtoFileLoader` | calls of `loadFile` on one loader, with the properties |
| `ProtoFileLoaderTheorems` | the invariants of the search, of the constructors and of the walks, and the proofs |
| `MCProtoFileLoader` | directories, files and message types for TLC |

HTTP:

| Module | What it is |
|---|---|
| `Connections` | external: the listening socket, its backlog, one TCP connection per call, faults |
| `HttpClient` | `ProtoMessageHttpClient::perform` |
| `HttpServer` | the owner in `start`, `stop` and the destructor, and the server thread |
| `HttpExchange` | both together, the fairness and the properties |
| `RequestOutcomes` | what a caller may conclude from how a call ended |
| `HttpExchangeTheorems` | the inductive invariant and the proofs |

JSON:

| Module | What it is |
|---|---|
| `JsonStringDump` | `dump_escaped`: decoder, escapes, the three error handlers, `string_buffer` and its flushes |
| `JsonString` | `lexer::scan_string` with its escapes and surrogate pairs, and both together: a literal is scanned, dumped, scanned again; the reference: which bytes are UTF-8 (Unicode, table 3-7) |
| `JsonStringTheorems` | the invariant of both and the proofs |
| `JsonParser` | `sax_parse_internal`: the stack of brackets, the tokens, the events |
| `JsonSax` | the three consumers of its events, over a memory of addressed nodes: the parser that builds the value, the one that asks a callback, the acceptor |
| `JsonParserTheorems` | the tree of nodes, the path of open containers, and the proof that the pointers stay live |
| `JsonNumber` | `scan_number` and the choice of the number type; the reference: which texts are numbers (RFC 8259) and what they stand for |
| `JsonInteger` | `dump_integer` and `count_digits` |
| `JsonNumberTheorems` | the invariant of the scanner and the proofs about both |
| `JsonComparison` | values, `operator==` and `operator<` |
| `JsonPointer` | `json_pointer`: `split`, the five loops over the tokens, `get_and_create`, `flatten` and `unflatten` |
| `JsonPatch` | `patch`, `diff`, `merge_patch` |
| `JsonBinary` | what the binary formats share: 64-bit numbers as octets, the reader's `get_number`, `get_string` and the loops over elements |
| `JsonCbor`, `JsonMessagePack`, `JsonUbjson`, `JsonBson` | the writer and the reader of each format |
| `JsonIterator` | `iter_impl` and the calls that take or return iterators or change a container, by a client with two values and two iterators |
| `JsonCalls` | one call after the other of all that, and the scanner of numbers |
| `MCJsonString`, `MCJsonParser`, `MCJsonCalls` | inputs; the grammars of RFC 8259's texts and RFC 6901, RFC 6902's operations and BSON's framing as references; the value read off the parser's memory and the tokens `dump` writes; the properties that compare with them |

### How writing is modelled

`MessageWriter` has one variable for each thing the code keeps: the document
(`doc`), the position in `serializeMessage` (`phase`), the active calls of
`calculateMessageSize` or `writeMessage` (`stack`), `total_size` at each point of
them (`sized`), the allocated size (`total`) and the bytes up to `target`
(`output`). The recursion of the code is an explicit stack. A call is at a
*point*: message type, JSON value, index of the field, index of the element. One
step handles one value (`SizeField`, `WriteField`), skips to the next field,
enters or leaves a nested message, or throws.

`sized` is keyed by points. The code calls `calculateMessageSize` on a nested
value once while it measures each of the enclosing messages and again for the
length prefix when it writes. All of these calls compute the same numbers, since
neither document nor descriptors change, so the table keeps them once and
`MessageSize` reads the result. `Return` has a second outcome when bytes were
written past the end: the behaviour is then undefined, so the string may look
intact, cut at its allocated size, or the process may be damaged.

The casts of a nested length to 32 bits (`protomessageserializer.cpp:121`, `:358`)
are left out because nothing can be seen of them: a nested message is no longer
than the whole, which the sizing pass takes with the full nested length, so a
length of 2^32 or more makes `total_size` exceed `INT_MAX` however many bytes
its prefix is given, and the call throws before it writes.

Abstractions: a text is an element of `Text` with its UTF-8 bytes and its base64
decoding as functions; a JSON number is a multiple of one half, so that
truncation of fractions shows; a floating-point number is represented by the
bytes of its count of halves, which keeps its width, its zero and its identity
but not the IEEE 754 layout. `json::parse` is modelled apart, in `JsonParser`;
here `Docs` are parsed documents. The `binary` argument is asserted true in the
code and compiled out in a release build; only the binary form exists.

The validation is exactly as deep as in the code: outermost fields only. What it
lets through in nested messages and array elements is refused by the first pass,
or accepted.

### How reading is modelled

`MessageReader` keeps the bytes and the position of the stream, its current
limit, and a stack of the active calls of `readMessage`, each with its document
and the limit its caller will restore. One step reads one tag, one value, one
element of a packed list, enters a nested message under a new limit, or leaves
it. What the code does not look at decides the next state all the same: a read
that fails leaves the variable it would have set and the position as
`CodedInputStream` does (`WireReading`), and the code goes on. A packed enumerator
that cannot be read is pushed with the variable's uninitialised contents, an
element of `Leftovers`. That loop reads nothing and never ends; `LoopBound` says
after how many elements the model no longer tells the rounds apart.

A text is the sequence of its bytes. What protobuf refuses by itself, a
tag of field zero or an unknown group without its end, is refused as in its
source. Protobuf's recursion budget is not asked by the code; the stack depth is
that of the input.

### How loading is modelled

`ProtoImporter` follows what `loadFile` demands of protobuf: a name is looked up
in the mapped directories in the order of mapping, the imports are built first,
a file that imports itself, directly or not, is an error, a file is built only when
it defines nothing that is there already and finds every message it uses, and
what was built stays. The list of files known to be bad is cleared at each
`Import`. `ProtoFileLoader` adds what the code keeps across calls: mappings are
only ever appended, errors never forgotten. The result of `DiskFileToVirtualFile`
is not used, so `loadFile` imports the path as given: an absolute path is found
in no mapping, and such a name is one that no directory holds.

The mirror is built by `Mirrors`, one constructor step at a time, from the pool's
descriptors; what a caller of the last load then does is a walk (`WalkOn`) from
message to field to `messageType()`. It walks only after the last load since
nothing it does changes what a load would answer, which keeps the state space
small. `WalksAgree` compares every mirror, at every depth and also one that is still
being made, with `Reference`, which is recursive over nested messages; that no
message is nested in itself is `NestingAssumption`, and protobuf's grammar gives it.

What a call demands of the files is stated without following the search:
`Needed` is the least set of files with the one asked for that is closed under
imports, and imports form no cycle if every set of needed files has one that
imports none of the set. `what()` returns a pointer into a temporary string; what such a pointer
shows is outside of the model, the errors thrown are kept instead.

### How the HTTP side is modelled

The owner's calls are split where the server thread can act in between: taking
the mutex, evaluating the predicate, blocking, in `start()`; setting `done`,
closing the acceptor, stopping the io_context, joining, in `stop()`. The mutex is
held exactly in the owner's states `checking` and `unsatisfied` (`MutexHeld`);
the thread's `Notify` needs it free. `SetStarted` does not, as in the code
`started` is set before the lock is taken. The condition variable may wake up
spuriously.

The io_context has one outstanding accept (`waiting`), completed accepts whose
handler did not run yet (`ready`), and `stopped`. `async_accept` tries at once,
so `StartAccept` takes a connection from the backlog if there is one. `run`
returns when stopped or out of work, and out of work is what each error path of
`handle_accept` leaves behind.

`stop()` closes the acceptor without synchronisation while the server thread may
be in `start_accept`. That is a data race; modelled are its outcomes that either
call comes first or that the accept fails.

`std::terminate` is reached by starting or destroying a server whose thread is
joinable. `start` looks at nothing before it assigns to the `std::thread`
(`httpserver.cpp:234`), so the owner may call it while the server runs, and ends
the process by it. The variable `starts` counts the calls of `start`, and the
history variable `late` records that one came after `stop`.

A call in `Calls` is one call of `perform`, with a resolver and socket of its
own, so a client that is used again is another call. Calls of clients that were
constructed with a URL (`FromUrl`) may fail to resolve or to connect whatever
the server does, since host and port were never set. `shutdown` may fail on a
connection that was reset.

Left out: the size of the listen backlog (far above the number of calls),
bodies and headers (a response is known by its call and its status), other HTTP
clients of the server than `perform`.

### How JSON is modelled

`JsonStringDump` and `JsonString` take one step per byte or escape, on bytes.
The decoder's table of 400 entries is replaced by the transitions it encodes
(`NextState`). `reach` records how far into `string_buffer` was written, the
terminating zero of `snprintf` included. `BufferSize` stands for 512; the code
flushes when fewer than 13 bytes are left.

`JsonParser` has a memory: an address for each value, elements and members that
hold addresses. Growing a vector moves its elements, which gives them new
addresses and makes the old ones dangle; `ref_stack` and `object_element` are
the parser's raw pointers. The lexer is abstracted to the tokens it returns, and
the tokens are chosen one at a time, so that every text up to `MaxTokens` tokens
is parsed. The consumer of the events is chosen at first. A callback's answers
are free, of which at most `MaxRejected` reject; it does not change the value it
is given. What a rejection removes follows the code: members and elements whose
parent has ended are dropped by `end_object` and `end_array`, a rejected scalar
is never stored, and a member whose value is rejected may stay behind as a
discarded value, although the documentation of `parser_callback_t`
(`json.hpp:15691`) says the result is as if it had never been read.

In `JsonNumber` a label of `scan_number` is a state and a `goto` a step; `Bits`
stands for 64. A floating-point number is its text, since `strtod` is not
modelled. `NumberSpec` is the scanner alone; `JsonCalls` starts as it does, or with
no number to scan, and its other steps leave the scanner's variables as they are. In `JsonComparison` one is a count of fractions, `One` of them
to the unit and `Tolerance` for the repository's 0.00001; the conversion of
large integers to `double` is exact in the model.

`JsonPointer` and the modules above it are operators: each call of the library
is one step of `JsonCalls`, since the calls share no state. A reference into a
document, which the code obtains by one call and changes through in a later one,
is a *place*, the positions that lead there, so that what `operator[]` creates
on the way stays created. An exception is its number. A failed `assert` is the
outcome of a release build, which goes on.

The readers of the binary formats are functions of a sequence of octets and a
position. Numbers have 64 bits, eight octets, in every module of the formats,
where counts of elements are small; a floating-point number is its bits. The
reader's recursion is a recursive operator; the four utility functions
(`get_number`, `get_string`, `get_cbor_array`, `get_cbor_object` and their
counterparts) are shared where the code shares them.

In `JsonIterator` an iterator is what the code keeps: the value that `m_object`
names, and a position that is a number in an array or a primitive value, and the
node of a member in an object, which its key names; with it, `in`, the value whose
contents the position is in. The client takes and moves iterators and calls
with them, also with iterators of the wrong value, which throws. Preconditions
whose violation is undefined behaviour are guards: it does not
dereference an end, give a range backwards, or use an iterator that is no longer
valid by the documentation or by the rules of `std::vector` and `std::map`.
Where the code departs from its comments it is modelled as it is: an empty
range of a scalar throws 204 in `erase`, whose documentation
(`json.hpp:18299`) calls erasing an empty range a no-op; `update` leaves an
empty object of a null when it throws; iterators of a value that is no array
insert nothing; and after `swap` (`json.hpp:20054-20064`, which changes no
iterator) an iterator is *stray*: it names the value it named before, while its
position is in the contents that the other value has now. Both are checked: the
position by `IteratorsKeepPlace`, what comes of the name by `JsonDepartures`. The
client moves a stray iterator while the named value is of the type of the
contents, and passes it to a value that it does not name, which throws; other uses
are undefined. The past-the-end iterator is invalid after `swap`, as documented.

## 3. Runs

| Run | Question | Bounds |
|---|---|---|
| `WriterNested` | Is each message answered with its encoding, or refused by its size, and do the length prefixes match the contents at every depth? | messages nested up to four deep, up to two repeated children, a text of 130 bytes (two-byte length), tags of one and two bytes; one field of every scalar type and every two-element array of chosen values, 18 integers at the edges of the varint sizes and of the types, fractions, booleans; `IntMax` 300 between the sizes that occur; 16 and 24 bits for 32 and 64 |
| `WriterAnyDocument` | Is everything that can throw met before the first byte is written, and is the buffer large enough although BYTES are measured wrongly? | each kind of value for each kind of field, at the top and nested, group fields, three spellings of a key; BYTES nested, repeated, with and without padding; no empty STRING |
| `ReaderMessages` | Is a message answered with its document, and is no byte read as part of another message, whatever the bytes are? | every string of up to five bytes of an alphabet of eight (tags, lengths, unfinished varints); chains of messages three deep, singular and repeated; every scalar type, singular, repeated, packed and mixed, with padded varints and bytes that are no UTF-8 |
| `HttpCalls` | Which calls are answered, and which sequences of start, stop and faults block or end the process? | two overlapping calls, one HTTP/1.0 without a port, one HTTP/1.1; two ports to try, two starts, two faults |
| `LoaderHistory` | What does an earlier `loadFile` change in a later one? | three calls, six names, four directories with two versions of two files, five lists of include paths; imports, cycles, missing imports, parse errors, clashing and missing messages, messages that refer to themselves |
| `JsonStrings` | Do strings survive scanning and dumping, and does the buffer hold? | literals of up to three pieces from every class of byte, escape and surrogate; strings of up to four bytes at the edges of every range of UTF-8, and longer ones through several flushes of a buffer of 16 bytes |
| `JsonTexts` | Does the parser accept JSON's grammar and build the right value through live pointers, whatever a callback drops? | every text of up to ten tokens, two keys; the three consumers; one rejection at any event |
| `JsonCalls` | Do numbers keep value and type, are comparisons coherent, do pointers, patches and merges do what their RFCs say, does what is written in a binary format come back, and do iterators stay in place? | every sequence of up to six characters; integers at the edges of a 16-bit type and of each number of digits; every two of a set of scalars, arrays and objects; documents nested three deep with `~`, `/` and digits in their keys, every pointer and patch of a set; some thousand values at the edges of every width and count of each format, and every continuation of up to three octets of the beginnings of values; arrays, objects, texts and null changed by up to two calls |

The widths 16 and 24 keep the two sizes apart and leave a negative 16-bit value
four varint bytes long after sign extension, so that the sign extension of
`INT32` and `ENUM` differs from `UINT32` and from zigzag as it does at 32 and
64. The theorems do not depend on them. A call of the serializer is sequential
and its documents are given, so depth and width beyond those above repeat steps
already taken; the inductive invariant makes that precise for the writer. Five
bytes are a nested message with a field and a byte after it, or two nested
messages whose lengths contradict each other. Two calls are the least that leave
one connection being served and one accepted or in the backlog; two faults allow
an accept and a connection to fail in the same run, two starts a server that is
started again. Three loads are the least in which a file of the first call
clashes with one of the second while the third sees what both have left. Ten
tokens hold an array of four elements, whose vector moves, inside or around an
object. One rejection suffices for each place of a value below, beside and above
what is rejected. Three octets behind a beginning hold a marker, a length and
one octet of contents, or a length that is cut off. Two changing calls are the
least in which an iterator that one returns is given to the other. A buffer of
16 bytes leaves three before a flush, fewer than one character of four bytes, so
a flush comes at every place relative to a character.

Properties, and what would be wrong without them:

* `PayloadMatchesPrefix`, `WritesWithinBuffer`: the two passes agree, or at least
  never disagree in the direction that writes past the buffer. The first fails
  with BYTES fields, the second with empty texts; the runs' documents and the
  theorems' assumptions say so.
* `WritePassNeverThrows`: no exception interrupts the writing pass.
* `KeepsPromise`, `KeepsReadPromise`: the calls implement `Serialization`. For
  the inputs of the runs the answer is that of the reference, a message over the
  limit is refused and no other is, and the call ends. `KeepsReadPromise`
  compares documents without the default first element of repeated fields.
* `StaysInside`: the limits nest, and the position stays inside all of them.
* `LoadsExactly`: `loadFile` returns a file exactly when it was built before or
  its imports can be resolved in the mappings, and nothing half done by an
  earlier failure matters.
* `FreshLoaderAgrees`: earlier calls make a difference only through what they
  leave behind that the file needs.
* `FailureIsExplained`: an exception carries an error of this call about this
  file, after those of earlier calls.
* `DescriptorsSettle`, `WalksAgree`: what has been returned can be followed to
  its end, at any later time, and agrees with the files: the pool holds what
  its files import and use, and the mirrors' constructors end.
* `LoadsEnd`: cyclic imports included.
* `ListensWhileRunning`: when `start()` has returned, the port accepts
  connections; the tests connect at once.
* `StaysResponsive`: only an error path leaves the accept loop.
* `CallsEnd` (`HttpExchange`): no call waits for ever; not on a server that
  works, and not on one left deaf by a fault once it is stopped and destroyed.
* `OwnerReturns`: `start()` and `stop()` return: no lost wake-up, no join of a
  thread that never ends. It has the exception the code has: when all ports are
  taken the thread gives up without notifying, and `start()` blocks for ever.
* `HandlesOnce`: `HttpExchange` implements `RequestOutcomes`. A returned call was
  handled exactly once, one refused with `ConnectionException` never.
* `ThreadEndsFirst`: the thread never outlives the members, and the process
  is terminated only if `start` is called a second time or after `stop`; a second
  call without `stop` between, on a running server too, always ends it.
* `StaysInBuffer` (`JsonString`): nothing is written behind `string_buffer`.
* `ReturnsOrThrows`: re-reading an invalid byte ends.
* `ThrowsIfIllFormed`, `ScansUtf8`: decoder and scanner agree with Unicode about
  what UTF-8 is. `ComesBack`: what was dumped is scanned as the same string, with
  what is no UTF-8 replaced or dropped as asked.
* `PointersLive`: the parser's pointers lead into the value, and its stacks are
  in step. `ParsesGrammar`, `DumpIsInverse`: it accepts exactly
  JSON, with the value the text stands for, and the dump of a value is parsed as
  that value.
* `ScansNumbers`, `IntegersComeBack`: a number is read as far as it goes and
  keeps its value or becomes floating point.
* `ComparesSoundly`: `==` holds between a document and its reparse, which the
  tests of the serializer rest on, and fits `<` where no two floating-point
  numbers meet.
* `PointersResolve`: `contains`, `at` and `operator[]` follow RFC 6901 and agree
  with each other; where `contains` says yes, `operator[]` creates nothing.
* `PatchesApply`: a patch has the effect of RFC 6902 or throws, except below what is
  no container and at a last token with a leading zero (`JsonDepartures`), and a
  merge patch has that of RFC 7396, twice as once. `DiffPatches`: a diff applied to the
  first document gives the second. `FlattenRestores`: a document comes back from
  its flat form except for empty containers and objects whose first key is 0.
* `BinaryComesBack`, `TruncatedIsRefused`, `ReadAgain`: what is written is read as
  the same value; no beginning of it is read at all; and what is read
  in any form is read again from what is then written.
* `BsonSizesExact`: each document of BSON is as long as it says.
* `IteratorsKeepPlace`: iterators visit what is there in both directions and
  compare by it; each call changes the range it is given and nothing else; the
  iterator it returns and those that stay valid point where they should. After
  `swap` they point into the contents of the other value; excepted are those of
  a primitive value, which only name it. An empty range of a container is erased
  without an exception; for one of a primitive value see `JsonDepartures`.

### Fairness

`MessageWriter`, `MessageReader`, `JsonString` and `JsonParser` have weak
fairness of their next step: a call runs on its caller's thread. `JsonCalls` has
none and no liveness property. `ProtoFileLoader` has weak fairness of the steps
of a begun call, none of `LoadFile` and `WalkOn`. `HttpExchange` has weak
fairness of each thread's own steps and of each begun call of `perform`, which
the operating system's scheduler gives, and of `Destroy`: `stop()` is called by
the destructor in every use the repository makes of it, which then goes on to
destroy the members. There is none for `Start`, `Stop` and `Resolve`, which the
callers may never call, nor for faults and spurious wake-ups. The client's
fairness is needed by `OwnerReturns`: a server thread blocked in a read of a
keep-alive connection ends when the client shuts it down, and only then.

### Where the code departs from its documentation

Each of these runs has inputs made for it and is expected to find a violation.
`lib/include/protomessageserializer.h:67-74` says that `serializeMessage` returns
the protobuf serialized message, and `readMessage` its JSON.

| Run | Code | What happens |
|---|---|---|
| `WriterDepartures` | `protomessageserializer.cpp:376` | BYTES are measured by the base64 encoding of the text and written as its decoding: zeros follow the message |
| | `:126` and `:364` | an empty STRING is not counted but written, in bytes counted for other fields |
| | `:163` | an enumerator's name is written as its position, not its number |
| | `:415` | zeros in arrays are dropped |
| `ReaderDepartures` | `:646` | repeated scalars start with a default element that was not in the message |
| | `:773` | an enumerator's number is read as a position |
| | `:719` | the second record of a singular message replaces the first instead of being merged |
| `ReaderEndless` | `:749` | a packed ENUM list with an element that is no varint is read for ever |
| `JsonDepartures` | `json.hpp:20245` | floating-point numbers closer than 0.00001 are equal, where `json.hpp:20186` promises `double::operator==` |
| | `:10447` | `{"0": 1}` comes back from `flatten` and `unflatten` as an array |
| | `:22205` | adding below a text drops the value and reports nothing when assertions are compiled out |
| | `:5347` | `from_bson`, told to throw, returns a discarded value when a text lacks its last octet |
| | `:22190` | `patch` adds at `/01` of an array, where `:1910` allows no leading zero |
| | `:10407` | `patch` at `/a` of an array throws `std::invalid_argument`, where `:1913` promises `parse_error.109` |
| | `:20061` | after `swap` an iterator throws 214 when it is dereferenced, where `:20041` promises that it stays valid |
| | `:18363` | erasing an empty range of a text throws 204, where `:18299` promises a no-op |

## 4. Proofs

Every theorem holds for every value of the constants that the named assumptions
admit. TLC evaluates the assumptions in the runs.

**The writer**, `MessageWriterTheorems`, for every schema, every set of documents,
every size limit and every pair of integer widths:

| Theorem | Statement |
|---|---|
| `WriterTypes` | `Spec => []TypeOK` |
| `WritePassIsSafe` | `Spec => WritePassNeverThrows` |
| `WriterStaysInBuffer` | without empty texts, `Spec => []WritesWithinBuffer` |
| `WriterPrefixesExact` | without empty texts and BYTES fields, `Spec => []PayloadMatchesPrefix` |
| `WriterKeepsPromise` | with `NoDepartures`, `Spec /\ Serializer!Ends => KeepsPromise`, the refinement of `Serialization` |

None of the last four is inductive. The writing pass relies on what the sizing
pass did at the same points, often long before and in another call. `SInv` says
what that was:

* `PassedWellPlaced`, `CallsNest`: the active calls stand at points of the
  schema and the document, each one at the value its caller stands at.
* `SizeOfStart`, `SizeOfField`, `SizeOfChild`, `SizeOfSkip`: the difference of
  `sized` between a point and the next one is the size of the value between.
* `PassedClosed`, `PassedInOrder`: the points passed are closed under "the next
  point", except where a call of the sizing pass still stands. In the writing pass no
  such call is left, so every point it reaches has been passed; a point that was
  passed did not throw.
* `EndsPassed`, `SizesGrow`: the whole message of each active call has been
  measured, and no point's size exceeds it.

`BoundedInv` and `ExactInv` add to `SInv` how the output relates to the sizes: the
bytes of the innermost call are at most (exactly) `sized` at its point, and each
call starts where its caller's point plus the prefix ends. They are preserved
because a field's bytes are at most (exactly) as many as its size, which the
lemmas of `WireFormatTheorems` establish for each kind of field: a tag is as long
as `TagSize` although it is measured with another wire type, a varint as long as
`VarintSize`, and a decoded text no longer than an encoded one.

`WriterKeepsPromise` is about the bytes themselves: of every document that
represents a message, and is not too large, the string that `serializeMessage`
returns is the encoding that `ProtobufEncoding` defines; no such document is
refused, none that is too large is answered, and none gets as far as a conversion
that throws. `NoDepartures` excludes the values that the code encodes otherwise
than protobuf (the findings of `WriterDepartures`): BYTES, empty texts,
zeros that are not optional, enumerators whose number is not their place. That the
call ends is a hypothesis, since it is a liveness property, which `WriterNested`
checks. The argument has three parts.

* The reference is a recursive function on documents. `RecursionDefines` shows that
  a function which is defined by recursion on a rank exists and satisfies its
  equation; `RepresentedFacts` and `EncodingsFacts` apply it with the depth of a
  document, and `JoinsFacts` to the concatenation of the fields.
* `Beginning(p)` is the part of a message's encoding in front of the point `p`. It is
  empty at the start, the encoding at the end (`BeginningEnds`), and grows from a
  point to the next by the encoding of the value between (`BeginningGrows`,
  `BeginningStays`). `ValueWritten` says that this is what `writeMessageField` writes,
  for each type of field: the conversion of a number that fits is the number, and
  the count of the enumerators in front of a name is its number.
* `PromiseInv` adds to `SInv` that the size at each point is the length of its
  beginning (`SizesKnown`), and that the output is what the active calls have sent
  (`OutputKnown`): the beginning of each caller's message, the tag and length of its
  child, and so on down to the innermost call. A prefix is written before the child,
  from a size measured in the first pass; `ChildWritten` shows it is the length of
  the encoding that follows.

Assumptions: `SchemaAssumption`, `JsonAssumption`, `TextAssumption`,
`WriterAssumption` and `WidthAssumption` say of what kind the constants are.
`TextAssumption` includes that base64 decoding does not lengthen a text.
`DepthAssumption` says that a document is a finite tree, `EnumAssumption` that the
names of an enumeration are different and have a number each. `PowerAssumption` lists arithmetic facts about powers of 2, 128 and 256 that hold
for all widths; the provers have no theory of exponentiation.

**HTTP**, `HttpExchangeTheorems`, for any number of calls, starts, faults and ports:

| Theorem | Statement |
|---|---|
| `ExchangeTypes` | `Spec => []TypeOK` |
| `RunningListens` | `Spec => []ListensWhileRunning` |
| `ServerStaysResponsive` | `Spec => []StaysResponsive` |
| `TerminatesOnlyOutOfTurn` | `Spec => []OnlyOutOfTurnTerminates`, a part of the next |
| `ThreadNeverOutlives` | `Spec => []ThreadEndsFirst` |
| `ExchangeHandlesOnce` | `Spec => HandlesOnce`, the refinement of `RequestOutcomes` |

The inductive invariant is
`HInv == TypeOK /\ Lifecycle /\ Listening /\ Working /\ EachOnce`. `Lifecycle`
relates the owner's call to `done`, `late`, `starts` and whether the thread is joinable;
`Listening` says from which point of the thread on there is an acceptor until it
is closed; `Working` that a serving thread has exactly one of an outstanding accept,
a completed accept and a connection, unless an error path has left the loop;
`EachOnce` that a call is handled when its connection is served, and by no
other. Each part is preserved by a lemma of its own, which uses the parts before
it, and `StepsRefine` maps every step to one of `RequestOutcomes` or to a stutter.
The assumptions are `NetworkAssumption`, `ClientAssumption` and
`ServerAssumption`.

**The reader**, `MessageReaderTheorems`, for every schema and every string of
bytes:

| Theorem | Statement |
|---|---|
| `ReadsInside` | `Spec => []StaysInside` |
| `ReadsOnward` | `Spec => [][Onward]_vars`: the position never goes back |
| `OnlyPackedEnumsIdle` | `[](Remaining \in Nat)` and `[][NearsEnd]_vars`: every step but one lowers a natural number |

`StaysInside` says already that the limits of the active calls lie within one
another. `Inv` adds what a step needs to keep that: `Stack`, that each active
call stays the record it was but for its document and unprintable members, and that no tag is
pending while a loop over a packed field runs. Each operator of `WireReading` keeps the position under the current
limit, which is a lemma for each; for a varint it goes by the least byte without
a continuation bit. `Remaining` counts the bytes ahead, the open calls and the
place in the call. The step that does not lower it is an element of a packed ENUM
field that consumes nothing, the one that `ReaderEndless` shows to run for ever.
So the theorem is the safety half of termination: the code has no other loop
that can idle. `ReaderAssumption` says of what kind the constants are.

**The loader**, `ProtoFileLoaderTheorems`, for every disk, every graph of
imports and every sequence of calls:

| Theorem | Statement |
|---|---|
| `AnswersAsDemanded` | `Spec => []LoadsExactly` |
| `AnswersLikeANewLoader` | `Spec => []FreshLoaderAgrees` |
| `FailuresExplained` | `Spec => []FailureIsExplained` |
| `PoolIsClosed` | `Spec => []PoolClosed`, a part of `WalksAgree` |
| `WalksFindMirrors` | `Spec => []WalksAgree`: the mirrors are, at every depth, what the descriptors say |
| `BuiltIsKept` | `Spec => DescriptorsSettle` |

`Inv` says at every point of the depth-first search what has been found out:

* `Complete`, `Acyclic`, `Resolved`, `Disjoint`: the files built import only
  files built, without a cycle, find the messages they use and define none
  twice. A file is only built when this stays true, in a successful call or not.
* `History`: what was built before the call is as it was; what was built since
  is needed and comes from the first directory that holds it.
* `Frames`, with `Attended` and `Opened`: each file under construction is needed,
  is imported by the one before it, occurs once, and every import it has passed is
  built, has failed, or is the next one on the stack.
* `Failed`: as soon as one file has failed, the file asked for is not
  `Loadable`, and an error of this call names the file that failed.
* `Answers`, `Constructors`: the call returns only a file that was built.

`Failed` is the heart: it is preserved since each way to fail refutes one clause
of `Loadable`. A file already under construction is on a cycle because the
stack from it to the top is a set of needed files each of which imports another;
a clash is one between two needed files, or with one built before, because what
was built since the call began is needed. In the other direction, the files
built are a closed set, so they contain all that is needed, and the parts above
are the clauses of `Loadable`. For `AnswersLikeANewLoader` the two loaders are
shown to find the same source for every file needed, so the least closed sets
are equal, and so are the clauses.

For `WalksFindMirrors` a second invariant, `Underway`, follows the constructors: each
has made the mirrors of its first children, in their order, the one inside it works on
the next, and every message and type they meet is described in the pool. What
is returned or reached by a walk is a mirror. The reference is recursive; that
there is such a function is proved by building it from the messages without nested
ones outwards (`GrowToAll`), which reaches all since no message lies in
itself (`NoneInItself`).

The assumptions are `DiskAssumption`, `LoaderAssumption`, `DescriptorAssumption`
and `NestingAssumption`: directories hold sources, messages are described, there are
finitely many of them, since the errors of a file become a sequence, and none is
nested in itself.

**JSON strings**, `JsonStringTheorems`, for strings and literals of every length:

| Theorem | Statement |
|---|---|
| `TypeCorrect` | `Spec => []TypeOK` |
| `BufferSuffices` | `Spec => []StaysInBuffer`, for every `BufferSize` from 16 on |
| `ThrowsExactly` | `Spec => []ThrowsIfIllFormed` |
| `ScanReturnsUtf8` | `Spec => []ScansUtf8` |
| `DumpedComesBack` | `Spec => []ComesBack` |
| `ReadsThrough` | a string is UTF-8 exactly if it can be read character by character, up to its end |

`Inv == TypeOK /\ DecoderInv /\ BufferInv /\ StrictInv /\ ScanInv`.
`BufferInv` says that at least 13 bytes are free behind the accepted ones, which
the longest escape or character needs, and that behind them nothing is
held but the bytes of the character begun: where a byte is written while a
character is incomplete, the decoder's state bounds how many of these there are.
`DecoderInv` says which characters the state may be the beginning of, and that
`codepoint` is what their bits give so far; `StrictInv` that the strict
handler has passed nothing but characters; `ScanInv` that `token_buffer` is UTF-8
throughout. `WellFormed` asks
of every octet that it lies in some character; `ReadsThrough` shows, by the least
octet at which reading could fail, that this is the usual notion.

For `DumpedComesBack` the invariant is `Inv /\ WrittenInv /\ RescanInv`. A dumped
text is a sequence of pieces: a plain byte, a character of two to four bytes, a
short escape, `\uxxxx`, or a pair of these. `Breaks(t, w, B)` says that `t` spells
`w`, with the set `B` of the places in both between the pieces, so that no
recursion is needed. `WrittenInv` says that what is accepted
spells `s` up to the character begun, if `s` is UTF-8, and some string
otherwise, wherever the buffer was flushed; `RescanInv` that the scanner stands
at a place of `B`. `EscapedPiece` shows that what is written for a character is one
piece, with `CodeBack`: encoding what was decoded gives the same bytes.
`PieceRead` shows that one turn of the scanner reads one piece, as the character
it stands for. The two automata and the escapes are
compared there by arithmetic over all code points.

The assumptions are `StringAssumption` and
`BufferAssumption`, the latter that the buffer has at least 16 bytes; the code's has
512.

**The JSON parser**, `JsonParserTheorems`, for all tokens, every bound and all
answers of a callback:

| Theorem | Statement |
|---|---|
| `PointersStayLive` | `Spec => []PointersLive` |

`PointersLive` speaks of the nodes the root owns, the least set with the root that
holds the children of its elements. The invariant says why the pointers lead there:
`Tree`, that a node is held at one place at most; `Path`, that the enclosing
containers, as far as they are kept, are a path of children from the root;
`Built` with the addresses given out so far. Only the container at the end of
the path grows, so what a growing vector moves are its elements, and what a
rejection frees hangs below an element or member; neither is on the path.
`AtAgrees` and `Depths` relate the parser's own stack of brackets to the consumer's
stacks, `Kinds` the two element by element, and `MemberReady` says that before a
member's value its place has been made, or the member was rejected. The assumption
is `TokenAssumption`.

**JSON numbers**, `JsonNumberTheorems`, for texts of every length and integers of
every width:

| Theorem | Statement |
|---|---|
| `NumbersAreScanned` | `NumberSpec => []ScansNumbers` |
| `IntegersAreKept` | `NumberSpec => IntegersComeBack` |

Behind the minus sign each label of `scan_number` stands for a form of what has
been read: a zero, a whole number, one that ends in its point, one with a
fraction, and so on. For each form a lemma says what one more character makes of
it, and these are the gotos (`Labelled`). What the scanner stops at is then
the longest beginning that is a number, or there is none, because no beginning
of the text behind the place where it fails is one. For `dump_integer`,
`WrittenWell` shows that the digits that are written two at a time are those of the number,
and as many as `count_digits` has counted four at a time; `WholeContinues` that the
scanner reads them to the end, so the value comes back. The functions
`JsonInteger` is recursive by are shown to exist by `Recursion`, a lemma on functions
over the numbers up to a bound, proved by least elements. The assumptions are
`NumberAssumption`, `BitsAssumption` and `PowerAssumption`, which says that powers
of 2 are numbers.

**Only model-checked.** Liveness: that the calls of `KeepsPromise` and
`KeepsReadPromise` end, `LoadsEnd`, `CallsEnd`, `ReturnsOrThrows`, `OwnerReturns`. That the answer of
`readMessage` is the document of its reference (`KeepsReadPromise`); the other
properties of `JsonCalls`; `ParsesGrammar` and `DumpIsInverse`. The modules of these
have recursive operators, over records, values and positions, about which the provers
cannot reason.

## 5. Not modelled, and the plan

Not modelled: the Qt stub, build files, fixtures and comparison helpers of the
tests. Of `json.hpp`: floating-point output (Grisu2) and input (`strtod`), which
are arithmetic without state; user-defined conversions, which are templates of
the client's types; input and output adapters and memory management, which
forward to the standard library. The rest of the repository is covered but for
accessors and constants.

Plan, in the order of what it would add:

1. State the reference for reading as `ProtobufEncoding` states that for writing, by
   functions on a rank, and prove the safety half of `KeepsReadPromise`:
   `RecursionDefines` does not depend on what is defined.
2. The same for `ParsesGrammar`, with the forms of a text as a relation between
   places in it, as `Breaks` does for strings.
