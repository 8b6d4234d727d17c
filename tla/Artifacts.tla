----------------------------- MODULE Artifacts -----------------------------
(***************************************************************************)
(* What the commands of legal_rag.cli and the scripts of src/scripts read  *)
(* and write.  The bytes of a file are abstracted to what they were        *)
(* computed from: a content names the content of every file its bytes, or  *)
(* a checksum embedded in them, depend on, so that comparing two checksums *)
(* is comparing two contents.                                              *)
(*                                                                         *)
(* A job is given by the files it reads, in order, and by what it does     *)
(* with what it has read: a sequence of effects on the disk, each of which *)
(* takes place at its own moment.                                          *)
(***************************************************************************)
EXTENDS Naturals, Sequences, TLC

\* A file nobody wrote.
NoFile == [what |-> "nothing", from |-> <<>>, basis |-> {}]

\* A source: a file that comes from outside, in one of its versions.
Source(name, version) ==
    [what |-> name, from |-> <<version>>, basis |-> {<<name, version>>}]

\* A value that is no file's: an argument, the clock, a random identifier.
Value(name, value) == [what |-> name, from |-> <<value>>, basis |-> {}]

\* What a job computes from the contents it names.
Made(name, from) ==
    [what |-> name, from |-> from,
     basis |-> UNION {from[k].basis : k \in DOMAIN from}]

\* No source entered a content in two versions.
Coherent(content) ==
    \A s, t \in content.basis : s[1] = t[1] => s[2] = t[2]

------------------------------------------------------------------------------
\* The effects of a job.
\*   immutable   write_immutable_bytes: ImmutableArtifact
\*   replace     a temporary file, then os.replace
\*   expect      an existing file must already be what is about to be written
\*   go_on       the job reads on: what follows is given as a job of its own,
\*               whose reads begin with those of this one
\*   refuse      the job ends here with an error
Immutable(file, data) == [do |-> "immutable", file |-> file, data |-> data]
Replace(file, data) == [do |-> "replace", file |-> file, data |-> data]
Expect(file, data) == [do |-> "expect", file |-> file, data |-> data]
GoOn(job) == [do |-> "go_on", file |-> job, data |-> NoFile]
Refuse == [do |-> "refuse", file |-> "none", data |-> NoFile]

\* A job that goes on only if what it has read passes its checks.
Provided(accepted, effects) == IF accepted THEN effects ELSE <<Refuse>>

\* Reads: the name a job has for what it reads, and the file.
Read(as, file) == [as |-> as, file |-> file]
Files(names) == [k \in DOMAIN names |-> Read(names[k], names[k])]

\* Immutable files that bear the names of what they hold.
Publish(contents) == [k \in DOMAIN contents |-> Immutable(contents[k].what, contents[k])]

\* The same, for a manifest that gives the checksum of each.
ByName(contents) ==
    [n \in {contents[k].what : k \in DOMAIN contents} |->
        contents[CHOOSE k \in DOMAIN contents : contents[k].what = n]]

------------------------------------------------------------------------------
(* Many scripts pin their inputs: the checksum of every file stands in the *)
(* script, each file is hashed against it, and is then read once more to   *)
(* be used.  The pinned checksums are those of version 1 of everything.    *)
Frozen(content) == \A s \in content.basis : s[2] = 1

Pins(pass, names) ==
    [k \in DOMAIN names |-> Read(pass \o "pinned " \o names[k], names[k])]
Uses(pass, names) == [k \in DOMAIN names |-> Read(pass \o names[k], names[k])]
Hold(g, pass, names) == \A k \in DOMAIN names : Frozen(g[pass \o "pinned " \o names[k]])

\* What is computed from files of these names, when which of them went in is
\* all that matters.
Inputs(g, pass, names) ==
    [what |-> "inputs", from |-> <<>>,
     basis |-> UNION {g[pass \o names[k]].basis : k \in DOMAIN names}]

\* What a clock, a duration or uuid4() showed; only the first time is pinned.
Moment(now) ==
    [what |-> "clock", from |-> <<>>,
     basis |-> IF now = 1 THEN {} ELSE {<<"clock", now>>}]
=============================================================================
