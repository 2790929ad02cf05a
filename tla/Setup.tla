------------------------------- MODULE Setup -------------------------------
(***************************************************************************)
(* CoreScout writing itself into the configuration of the AIs it serves    *)
(* (product-api/src/setup.rs, the configure request of api.rs).  The files *)
(* belong to somebody else, who edits them meanwhile; a request holds no   *)
(* lock, so two of them may run at once; and std::fs::write empties a file *)
(* before it fills it.                                                     *)
(*                                                                         *)
(* A file is what its owner put into it, whether it parses, and CoreScout's *)
(* own entry.  The three formats differ in what they merge: an object of   *)
(* servers, a list of hooks, and a table that is appended unparsed.        *)
(***************************************************************************)
EXTENDS Naturals

CONSTANTS
    File, Format,   \* Format[d] \in {"object", "hooks", "table"}
    Setting,        \* what an owner may put into a file
    Namesake,       \* those that are hooks whose command mentions corescout
    Caller,         \* requests being served
    Idle,
    MaxEdits,       \* bound: edits of the owners
    MaxFailures     \* bound: writes that fail, and crashes of the service

\* An absent file reads as an empty one.
Content == [text : {"empty", "whole", "garbled"}, theirs : SUBSET Setting,
            ours : {"none", "old", "current"}]

\* A file, what is to be put there, and whether it has been opened for it.
Writing == [file : File, stage : {"opening", "filling"}, text : Content]

ASSUME SetupAssumption ==
    /\ Format \in [File -> {"object", "hooks", "table"}]
    /\ Namesake \subseteq Setting /\ MaxEdits \in Nat /\ MaxFailures \in Nat
    /\ Idle \notin Writing

Empty == [text |-> "empty", theirs |-> {}, ours |-> "none"]

VARIABLES
    file,       \* file[d]: what is on the disk
    readable,   \* readable[d]: FALSE when it is not UTF-8
    merge,      \* merge[c]: a file and the text to put there, or Idle
    wanted,     \* ghost: wanted[d]: what its owner put into the file
    edits, failures,   \* ghosts: for the bounds
    excused     \* ghost: files with one of the known causes of a loss

setupVars == <<file, readable, merge, wanted, edits, failures, excused>>

SetupInit ==
    /\ file \in [File -> {Empty} \cup
          {[text |-> "whole", theirs |-> Setting, ours |-> o] : o \in {"none", "old"}}]
    /\ readable = [d \in File |-> TRUE]
    /\ merge = [c \in Caller |-> Idle]
    /\ wanted = [d \in File |-> file[d].theirs]
    /\ edits = 0 /\ failures = 0 /\ excused = {}

Busy(d) == {c \in Caller : merge[c] # Idle /\ merge[c].file = d}

-----------------------------------------------------------------------------
\* merge_json, merge_hooks and append_toml.  The first two refuse what they
\* cannot parse, and put their entry in the place of an old one; a list also
\* loses what else mentions corescout.  The third looks for its own heading.
TheirsKeptMutant(d, text) == {}

TheirsKept(d, text) == IF Format[d] = "hooks" THEN text.theirs \ Namesake ELSE text.theirs

Refuses(d, text) == Format[d] # "table" /\ text.text = "garbled"

Merged(d, text) ==
    [text |-> IF text.text = "garbled" THEN "garbled" ELSE "whole",
     theirs |-> TheirsKept(d, text),
     ours |-> IF Format[d] = "table" /\ text.ours # "none" THEN text.ours ELSE "current"]

\* The file is read, a failure to read it being an empty text, and merged.
Read(c, d) ==
    LET text == IF readable[d] THEN file[d] ELSE Empty
    IN  /\ merge[c] = Idle /\ ~Refuses(d, text)
        /\ merge' = [merge EXCEPT ![c] =
               [file |-> d, stage |-> "opening", text |-> Merged(d, text)]]
        /\ excused' = IF \/ ~readable[d] \/ Busy(d) # {}
                         \/ Format[d] = "hooks" /\ text.theirs \cap Namesake # {}
                      THEN excused \cup {d} ELSE excused
        /\ UNCHANGED <<file, readable, wanted, edits, failures>>

\* fs::write: the file is opened, which empties it, and filled from its start.
Open(c) ==
    /\ merge[c] # Idle /\ merge[c].stage = "opening"
    /\ file' = [file EXCEPT ![merge[c].file] = Empty]
    /\ merge' = [merge EXCEPT ![c].stage = "filling"]
    /\ UNCHANGED <<readable, wanted, edits, failures, excused>>

\* What another request wrote since may be longer, and stick out.
Fill(c) ==
    /\ merge[c] # Idle /\ merge[c].stage = "filling"
    /\ LET d == merge[c].file
       IN  \/ file' = [file EXCEPT ![d] = merge[c].text]
           \/ /\ file[d] # Empty
              /\ file' = [file EXCEPT ![d] = [merge[c].text EXCEPT !.text = "garbled"]]
    /\ merge' = [merge EXCEPT ![c] = Idle]
    /\ UNCHANGED <<readable, wanted, edits, failures, excused>>

\* The write fails where it stands: the file cannot be opened, or the disk is
\* full once it is empty.
Fail(c) ==
    /\ merge[c] # Idle /\ failures < MaxFailures /\ failures' = failures + 1
    /\ excused' = IF merge[c].stage = "filling" THEN excused \cup {merge[c].file}
                                                   ELSE excused
    /\ merge' = [merge EXCEPT ![c] = Idle]
    /\ UNCHANGED <<file, readable, wanted, edits>>

Crash ==
    /\ failures < MaxFailures /\ failures' = failures + 1
    /\ excused' = excused \cup {d \in File : \E c \in Busy(d) : merge[c].stage = "filling"}
    /\ merge' = [c \in Caller |-> Idle]
    /\ UNCHANGED <<file, readable, wanted, edits>>

-----------------------------------------------------------------------------
\* The owner adds a setting, or breaks or mends the syntax.
Edit(d) ==
    /\ edits < MaxEdits /\ edits' = edits + 1
    /\ \/ \E s \in Setting \ wanted[d] :
             /\ file' = [file EXCEPT ![d].theirs = @ \cup {s},
                                     ![d].text = IF @ = "empty" THEN "whole" ELSE @]
             /\ wanted' = [wanted EXCEPT ![d] = @ \cup {s}]
       \/ /\ file[d].text = "whole" /\ file' = [file EXCEPT ![d].text = "garbled"]
          /\ UNCHANGED wanted
       \/ /\ file[d].text = "garbled" /\ file' = [file EXCEPT ![d].text = "whole"]
          /\ UNCHANGED wanted
    /\ excused' = IF Busy(d) = {} THEN excused ELSE excused \cup {d}
    /\ UNCHANGED <<readable, merge, failures>>

\* It is saved in another encoding, or in UTF-8 again.
Recode(d) ==
    /\ readable' = [readable EXCEPT ![d] = ~@]
    /\ UNCHANGED <<file, merge, wanted, edits, failures, excused>>

SetupNext ==
    \/ \E c \in Caller : (\E d \in File : Read(c, d)) \/ Open(c) \/ Fill(c) \/ Fail(c)
    \/ \E d \in File : Edit(d) \/ Recode(d)
    \/ Crash

SetupSpec == SetupInit /\ [][SetupNext]_setupVars

-----------------------------------------------------------------------------
SetupTypeOK ==
    /\ file \in [File -> Content] /\ readable \in [File -> BOOLEAN]
    /\ merge \in [Caller -> Writing \cup {Idle}]
    /\ wanted \in [File -> SUBSET Setting] /\ excused \subseteq File
    /\ edits \in 0..MaxEdits /\ failures \in 0..MaxFailures

\* The ways a set-up can lose what somebody else wrote are these and no other:
\* the file could not be read, two requests or an edit overlapped, the write
\* was cut short, or a hook bore CoreScout's name.  Short of them an owner
\* keeps every setting, through any number of set-ups (setup.rs:12-17).
LossHasACause ==
    \A d \in File \ excused : Busy(d) = {} => wanted[d] \subseteq file[d].theirs

\* setup.rs:12-17: CoreScout writes "only after the existing file has been
\* parsed successfully", and apply_hooks "keeping everything else"
\* (setup.rs:97).
OthersKept ==
    \A d \in File : Busy(d) = {} => wanted[d] \subseteq file[d].theirs
=============================================================================
