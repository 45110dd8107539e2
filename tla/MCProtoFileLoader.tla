-------------------------- MODULE MCProtoFileLoader --------------------------
(***************************************************************************)
(* Directories for checking ProtoFileLoader: the test's address book with  *)
(* the path of the working directory and with that of test/data, its       *)
(* import in two versions, one of which defines a message of the address   *)
(* book, a file they share, in two versions, one of which uses a message   *)
(* it does not import, files that import each other, and a file that       *)
(* cannot be parsed.                                                       *)
(***************************************************************************)
EXTENDS ProtoFileLoader, TLC

Proto(imports, messages) ==
  [imports |-> imports, messages |-> messages, parses |-> TRUE, warns |-> FALSE]

AddressBook == [Proto(<<"timestamp", "shared">>, <<"Person">>) EXCEPT !.warns = TRUE]
Broken      == [Proto(<< >>, << >>) EXCEPT !.parses = FALSE]

MCDisk ==
  ("."       :> ("test/data/addressbook" :> AddressBook)) @@
  ("data"    :> ("addressbook" :> AddressBook
                   @@ "shared" :> Proto(<<"timestamp">>, <<"Shared">>))) @@
  ("include" :> ("timestamp" :> Proto(<< >>, <<"Timestamp">>)
                   @@ "ping" :> Proto(<<"timestamp", "pong">>, <<"Ping">>)
                   @@ "pong" :> Proto(<<"ping">>, <<"Pong">>))) @@
  ("old"     :> ("timestamp" :> Proto(<< >>, <<"Timestamp", "Person">>)
                   @@ "shared" :> Proto(<< >>, <<"Shared">>)
                   @@ "pong" :> Broken))

MCDir    == DOMAIN MCDisk
MCFile   == {"test/data/addressbook", "addressbook", "timestamp", "shared", "ping", "pong"}
MCSymbol == {"Person", "Timestamp", "Shared", "Ping", "Pong"}

(***************************************************************************)
(* What the messages consist of: a message nested in another that refers   *)
(* back to it, an enumeration, a message of an imported file.              *)
(***************************************************************************)
FieldOf(name, type, label) == [name |-> name, type |-> type, label |-> label]

FieldWith(name, label, type) == ("message" :> type) @@ FieldOf(name, 11, label)

Fields(fields) == [fields |-> fields, enums |-> << >>, nested |-> << >>]

MCDescriptor ==
  [Person      |-> [fields |-> <<FieldOf("name", 9, 1), FieldWith("id", 2, "Timestamp"),
                                 FieldWith("phones", 3, "PhoneNumber"),
                                 FieldWith("friend", 1, "Person")>>,
                    enums  |-> << <<"MOBILE", "HOME", "WORK">> >>,
                    nested |-> <<"PhoneNumber">>],
   PhoneNumber |-> Fields(<<FieldOf("number", 9, 2), FieldOf("type", 14, 1),
                            FieldWith("owner", 1, "Person")>>),
   Timestamp   |-> Fields(<<FieldOf("seconds", 3, 1), FieldOf("nanos", 5, 1)>>),
   Shared      |-> Fields(<<FieldWith("times", 3, "Timestamp")>>),
   Ping        |-> Fields(<<FieldWith("pong", 1, "Pong")>>),
   Pong        |-> Fields(<<FieldWith("ping", 1, "Ping")>>)]

MCIncludePaths ==
  {<< >>, <<"data">>, <<"include">>, <<"data", "include">>, <<"old", "data">>}
=============================================================================
