--------------------------- MODULE AwsBuild_proofs ----------------------------
(***************************************************************************)
(* For any number of services: an image that a call answers with was       *)
(* finished and built under the call's tag; when the tags of different     *)
(* services differ, it is the call's own, and the calls implement          *)
(* BuildContract.                                                          *)
(***************************************************************************)
EXTENDS AwsBuild, TLAPS

\* One step of a call or a build, by its kind.
LEMMA NextSteps ==
  ASSUME [Next]_vars
  PROVE \/ \E c \in Calls : \/ StartBuild(c) \/ StartFails(c) \/ Poll(c)
                            \/ GiveUp(c) \/ Cancel(c) \/ Resolve(c)
        \/ \E b \in Builds : PushImage(b) \/ End(b)
        \/ UNCHANGED vars
  BY DEF Next, Create

LEMMA CurrentIsBuild ==
  ASSUME TypeOK, NEW c \in Calls
  PROVE Current(c) \in Builds /\ Current(c)[1] = c
  BY DEF TypeOK, Current, Builds

LEMMA TypeInit == Init => TypeOK
  BY DEF Init, TypeOK, Statuses, Builds

\* What an error does to a call keeps its variables' types.
LEMMA RetryType ==
  ASSUME TypeOK, NEW c \in Calls, NEW retryable \in BOOLEAN, Retry(c, retryable), pushed' = pushed
  PROVE /\ phase' \in [Calls -> {"start", "poll", "resolve", "done"}]
        /\ attempt' \in [Calls -> {0, 1}]
        /\ answer' \in [Calls -> pushed' \union {NoAnswer, Failed}]
  BY DEF TypeOK, Retry, Return

LEMMA TypeNext == TypeOK /\ [Next]_vars => TypeOK'
  <1> SUFFICES ASSUME TypeOK, [Next]_vars PROVE TypeOK'
    OBVIOUS
  <1>1. ASSUME NEW c \in Calls, StartBuild(c) PROVE TypeOK'
    BY <1>1, CurrentIsBuild DEF StartBuild, TypeOK, Statuses
  <1>2. ASSUME NEW c \in Calls, StartFails(c) PROVE TypeOK'
    <2>1. /\ phase' \in [Calls -> {"start", "poll", "resolve", "done"}]
          /\ attempt' \in [Calls -> {0, 1}]
          /\ answer' \in [Calls -> pushed' \union {NoAnswer, Failed}]
      BY <1>2, RetryType DEF StartFails
    <2>2. /\ status' \in [Builds -> Statuses]
          /\ \A b \in Builds : status[b] # "none" => status'[b] # "none"
      BY <1>2, CurrentIsBuild DEF StartFails, TypeOK, Statuses
    <2> QED BY <1>2, <2>1, <2>2 DEF StartFails, TypeOK
  <1>3. ASSUME NEW c \in Calls, Poll(c) PROVE TypeOK'
    <2>1. CASE status[Current(c)] = "succeeded"
      BY <1>3, <2>1 DEF Poll, TypeOK
    <2>2. CASE status[Current(c)] # "succeeded"
      BY <1>3, <2>2, RetryType DEF Poll, TypeOK, Retryable
    <2> QED BY <2>1, <2>2
  <1>4. ASSUME NEW c \in Calls, GiveUp(c) PROVE TypeOK'
    BY <1>4, RetryType DEF GiveUp, TypeOK
  <1>5. ASSUME NEW c \in Calls, Cancel(c) PROVE TypeOK'
    BY <1>5 DEF Cancel, Return, TypeOK
  <1>6. ASSUME NEW c \in Calls, Resolve(c) PROVE TypeOK'
    <2>1. Tag(c) \in Tags
      BY DEF Tags
    <2> QED BY <1>6, <2>1 DEF Resolve, Return, TypeOK
  <1>7. ASSUME NEW b \in Builds, PushImage(b) PROVE TypeOK'
    <2>1. pushed' \subseteq {d \in Builds : status'[d] # "none"}
      BY <1>7 DEF PushImage, TypeOK
    <2>2. tagged' \in [Tags -> pushed' \union {NoBuild}]
      BY <1>7 DEF PushImage, TypeOK
    <2>3. answer' \in [Calls -> pushed' \union {NoAnswer, Failed}]
      BY <1>7 DEF PushImage, TypeOK
    <2> QED BY <1>7, <2>1, <2>2, <2>3 DEF PushImage, TypeOK
  <1>8. ASSUME NEW b \in Builds, End(b) PROVE TypeOK'
    BY <1>8 DEF End, TypeOK, Statuses
  <1>9. CASE UNCHANGED vars
    BY <1>9 DEF vars, TypeOK
  <1> QED BY <1>1, <1>2, <1>3, <1>4, <1>5, <1>6, <1>7, <1>8, <1>9, NextSteps

\* Every state is well typed: an answer names an image that was pushed.
THEOREM TypeCorrect == Spec => []TypeOK
  BY TypeInit, TypeNext, PTL DEF Spec

-----------------------------------------------------------------------------
\* A build of a call that has not started it yet is untouched.
FreshInv ==
  \A c \in Calls : /\ phase[c] = "start" => status[Current(c)] = "none"
                   /\ attempt[c] = 0 => status[<<c, 1>>] = "none"

\* A call looks its image up when the build it awaited has ended well.
ResolveInv == \A c \in Calls : phase[c] = "resolve" => status[Current(c)] = "succeeded"

\* A call that has not returned has no answer.
PendingInv == \A c \in Calls : phase[c] # "done" => answer[c] = NoAnswer

\* A tag names an image pushed under it.
TagInv ==
  \A t \in Tags : tagged[t] # NoBuild => tagged[t] \in pushed /\ Tag(tagged[t][1]) = t

CallInv == TypeOK /\ FreshInv /\ ResolveInv /\ PendingInv /\ TagInv

LEMMA CallInit == Init => CallInv
  <1> SUFFICES ASSUME Init PROVE CallInv
    OBVIOUS
  <1>1. TypeOK
    BY TypeInit
  <1>2. \A c \in Calls : Current(c) \in Builds /\ <<c, 1>> \in Builds
    BY <1>1, CurrentIsBuild DEF Builds
  <1> QED BY <1>1, <1>2 DEF Init, CallInv, FreshInv, ResolveInv, PendingInv, TagInv

\* A start that fails takes its call to the next attempt or to its end; a build
\* that it leaves running belongs to the attempt that is over.
LEMMA StartFailsInv ==
  ASSUME CallInv, TypeOK', NEW c \in Calls, StartFails(c)
  PROVE CallInv'
  <1>1. phase[c] = "start" /\ answer[c] = NoAnswer
    BY DEF StartFails, CallInv, PendingInv
  <1>2. attempt \in [Calls -> {0, 1}] /\ attempt' \in [Calls -> {0, 1}]
    BY DEF CallInv, TypeOK
  <1>3. ASSUME NEW d \in Calls, d # c
        PROVE attempt'[d] = attempt[d] /\ phase'[d] = phase[d] /\ answer'[d] = answer[d]
    BY <1>3 DEF StartFails, Retry, Return, CallInv, TypeOK
  <1>4. ASSUME NEW b \in Builds, b # Current(c) PROVE status'[b] = status[b]
    BY <1>4 DEF StartFails, CallInv, TypeOK
  <1>5. ASSUME NEW d \in Calls, d # c, NEW i \in {0, 1}
        PROVE status'[<<d, i>>] = status[<<d, i>>]
    BY <1>4, <1>5 DEF Builds, Current
  <1>6. \/ /\ attempt[c] = 0 /\ attempt'[c] = 1
           /\ phase'[c] = "start" /\ answer'[c] = NoAnswer
        \/ attempt'[c] = 1 /\ phase'[c] = "done"
    BY <1>1, <1>2 DEF StartFails, Retry, Return, CallInv, TypeOK
  <1>7. attempt[c] = 0 => status'[<<c, 1>>] = "none"
    <2> SUFFICES ASSUME attempt[c] = 0 PROVE status'[<<c, 1>>] = "none"
      OBVIOUS
    <2>1. <<c, 1>> \in Builds /\ <<c, 1>> # Current(c)
      BY DEF Builds, Current
    <2> QED BY <1>4, <2>1 DEF CallInv, FreshInv
  <1>8. ASSUME NEW d \in Calls
        PROVE /\ phase'[d] = "start" => status'[<<d, attempt'[d]>>] = "none"
              /\ attempt'[d] = 0 => status'[<<d, 1>>] = "none"
              /\ phase'[d] = "resolve" => status'[<<d, attempt'[d]>>] = "succeeded"
              /\ phase'[d] # "done" => answer'[d] = NoAnswer
    <2>1. CASE d = c
      BY <1>6, <1>7, <2>1
    <2>2. CASE d # c
      <3>1. attempt[d] \in {0, 1}
        BY <1>2
      <3>2. status'[<<d, attempt[d]>>] = status[<<d, attempt[d]>>]
            /\ status'[<<d, 1>>] = status[<<d, 1>>]
        BY <1>5, <2>2, <3>1
      <3> QED
        BY <1>3, <2>2, <3>2 DEF CallInv, FreshInv, ResolveInv, PendingInv, Current
    <2> QED BY <2>1, <2>2
  <1>9. TagInv'
    BY DEF StartFails, CallInv, TagInv
  <1> QED BY <1>8, <1>9 DEF CallInv, FreshInv, ResolveInv, PendingInv, Current

LEMMA CallNext == CallInv /\ [Next]_vars => CallInv'
  <1> SUFFICES ASSUME CallInv, [Next]_vars PROVE CallInv'
    OBVIOUS
  <1>1. TypeOK /\ TypeOK'
    BY TypeNext DEF CallInv
  <1>2. \A c \in Calls : Current(c) \in Builds /\ <<c, 0>> \in Builds /\ <<c, 1>> \in Builds
    BY <1>1, CurrentIsBuild DEF Builds
  <1> USE <1>1, <1>2 DEF CallInv, FreshInv, ResolveInv, PendingInv, TagInv, Current
  <1>3. ASSUME NEW c \in Calls, StartBuild(c) PROVE CallInv'
    BY <1>3 DEF StartBuild, TypeOK
  <1>4. ASSUME NEW c \in Calls, StartFails(c) PROVE CallInv'
    BY <1>4, StartFailsInv
  <1>5. ASSUME NEW c \in Calls, Poll(c) PROVE CallInv'
    BY <1>5 DEF Poll, Retry, Return, TypeOK
  <1>6. ASSUME NEW c \in Calls, GiveUp(c) PROVE CallInv'
    <2>1. UNCHANGED <<status, pushed, tagged>>
      BY <1>6 DEF GiveUp
    <2>2. CASE attempt[c] = 0
      <3>1. /\ attempt' = [attempt EXCEPT ![c] = 1]
            /\ phase' = [phase EXCEPT ![c] = "start"]
            /\ answer' = answer
        BY <1>6, <2>2 DEF GiveUp, Retry
      <3>2. answer[c] = NoAnswer
        BY <1>6 DEF GiveUp
      <3>3. FreshInv'
        BY <2>1, <2>2, <3>1 DEF TypeOK
      <3>4. ResolveInv' /\ PendingInv' /\ TagInv'
        BY <2>1, <3>1, <3>2 DEF TypeOK
      <3> QED BY <3>3, <3>4
    <2>3. CASE attempt[c] # 0
      BY <1>6, <2>1, <2>3 DEF GiveUp, Retry, Return, TypeOK
    <2> QED BY <2>2, <2>3
  <1>7. ASSUME NEW c \in Calls, Cancel(c) PROVE CallInv'
    BY <1>7 DEF Cancel, Return, TypeOK
  <1>8. ASSUME NEW c \in Calls, Resolve(c) PROVE CallInv'
    BY <1>8 DEF Resolve, Return, TypeOK
  <1>9. ASSUME NEW b \in Builds, PushImage(b) PROVE CallInv'
    BY <1>9 DEF PushImage, TypeOK
  <1>10. ASSUME NEW b \in Builds, End(b) PROVE CallInv'
    BY <1>10 DEF End, TypeOK
  <1>11. CASE UNCHANGED vars
    BY <1>11 DEF vars
  <1> QED
    BY <1>3, <1>4, <1>5, <1>6, <1>7, <1>8, <1>9, <1>10, <1>11, NextSteps

-----------------------------------------------------------------------------
\* What a call may answer with is neither of the two other answers.
NamesApart == {NoAnswer, Failed} \intersect Builds = {}

\* The call has an image: it has returned, and its attempt no longer changes.
LEMMA AnsweredIsDone ==
  ASSUME CallInv, NamesApart, NEW c \in Calls, answer[c] \in Builds
  PROVE phase[c] = "done"
  BY DEF CallInv, PendingInv, NamesApart

\* A build that ended well stays so, whatever a call does.
LEMMA SuccessStays ==
  ASSUME CallInv, [Next]_vars, NEW b \in Builds, status[b] = "succeeded"
  PROVE status'[b] = "succeeded"
  <1>1. ASSUME NEW c \in Calls, StartBuild(c) \/ StartFails(c)
        PROVE status'[b] = "succeeded"
    <2>1. status[Current(c)] = "none"
      BY <1>1 DEF StartBuild, StartFails, CallInv, FreshInv
    <2> QED BY <1>1, <2>1 DEF StartBuild, StartFails, CallInv, TypeOK
  <1>2. ASSUME NEW d \in Builds, End(d) PROVE status'[b] = "succeeded"
    BY <1>2 DEF End, CallInv, TypeOK
  <1>3. ASSUME UNCHANGED status PROVE status'[b] = "succeeded"
    BY <1>3
  <1> QED
    BY <1>1, <1>2, <1>3, NextSteps
    DEF Poll, GiveUp, Cancel, Resolve, PushImage, vars

\* A call that has returned is over.
LEMMA DoneStays ==
  ASSUME CallInv, [Next]_vars, NEW c \in Calls, phase[c] = "done"
  PROVE attempt'[c] = attempt[c] /\ answer'[c] = answer[c]
  <1> USE DEF CallInv, TypeOK
  <1>1. ASSUME NEW d \in Calls, d # c, Retry(d, TRUE) \/ Retry(d, FALSE)
        PROVE attempt'[c] = attempt[c] /\ answer'[c] = answer[c]
    BY <1>1 DEF Retry, Return
  <1>2. ASSUME NEW d \in Calls, StartBuild(d) \/ StartFails(d) \/ Poll(d) \/ GiveUp(d) \/ Cancel(d) \/ Resolve(d)
        PROVE attempt'[c] = attempt[c] /\ answer'[c] = answer[c]
    <2>1. d # c
      BY <1>2 DEF StartBuild, StartFails, Poll, GiveUp, Cancel, Resolve
    <2>2. CASE StartBuild(d)
      BY <2>2 DEF StartBuild
    <2>3. CASE StartFails(d) \/ GiveUp(d)
      BY <1>1, <2>1, <2>3 DEF StartFails, GiveUp
    <2>4. CASE Poll(d)
      BY <1>1, <2>1, <2>4 DEF Poll, Retryable
    <2>5. CASE Cancel(d) \/ Resolve(d)
      BY <2>1, <2>5 DEF Cancel, Resolve, Return
    <2> QED BY <1>2, <2>2, <2>3, <2>4, <2>5
  <1> QED
    BY <1>2, NextSteps DEF PushImage, End, vars

\* A call gets an image only by looking it up.
LEMMA OnlyResolveAnswers ==
  ASSUME CallInv, [Next]_vars, NamesApart, NEW c \in Calls, answer'[c] \in Builds
  PROVE answer'[c] = answer[c] \/ Resolve(c)
  <1> USE DEF CallInv, TypeOK, NamesApart
  <1>1. ASSUME NEW d \in Calls, Retry(d, TRUE) \/ Retry(d, FALSE)
        PROVE answer'[c] = answer[c]
    BY <1>1 DEF Retry, Return
  <1>2. ASSUME NEW d \in Calls, Poll(d) PROVE answer'[c] = answer[c]
    BY <1>1, <1>2 DEF Poll, Retryable
  <1>3. ASSUME NEW d \in Calls, StartFails(d) \/ GiveUp(d) PROVE answer'[c] = answer[c]
    BY <1>1, <1>3 DEF StartFails, GiveUp
  <1>4. ASSUME NEW d \in Calls, Cancel(d) PROVE answer'[c] = answer[c]
    BY <1>4 DEF Cancel, Return
  <1>5. ASSUME NEW d \in Calls, Resolve(d), d # c PROVE answer'[c] = answer[c]
    BY <1>5 DEF Resolve, Return
  <1> QED
    BY <1>2, <1>3, <1>4, <1>5, NextSteps DEF StartBuild, PushImage, End, vars

LEMMA ImageNext ==
  ASSUME NamesApart, CallInv, NoUnfinishedImage, [Next]_vars
  PROVE NoUnfinishedImage'
  <1> SUFFICES ASSUME NEW c \in Calls, answer'[c] \in Builds
               PROVE \/ status'[answer'[c]] = "succeeded"
                     \/ answer'[c] # Current(c)' /\ status'[Current(c)'] = "succeeded"
    BY DEF NoUnfinishedImage
  <1>1. Current(c) \in Builds
    BY CurrentIsBuild DEF CallInv
  <1>2. CASE answer[c] \in Builds
    <2>1. Current(c)' = Current(c) /\ answer'[c] = answer[c]
      BY <1>2, AnsweredIsDone, DoneStays DEF Current
    <2> QED BY <1>1, <1>2, <2>1, SuccessStays DEF NoUnfinishedImage
  <1>3. CASE Resolve(c)
    <2>1. Current(c)' = Current(c) /\ status[Current(c)] = "succeeded"
      BY <1>3 DEF Resolve, Return, Current, CallInv, ResolveInv
    <2> QED BY <1>1, <2>1, SuccessStays
  <1> QED BY <1>2, <1>3, OnlyResolveAnswers

\* Whatever the services and the order of their builds, the build that a call
\* waited for is never an answer unless it ended well, and no other image of the
\* tag is an answer before it did.
THEOREM NoneUnfinished ==
  ASSUME NamesApart
  PROVE Spec => []NoUnfinishedImage
  <1>1. Init => CallInv /\ NoUnfinishedImage
    BY CallInit, NamesApart DEF Init, NoUnfinishedImage, NamesApart
  <1>2. CallInv /\ NoUnfinishedImage /\ [Next]_vars => (CallInv /\ NoUnfinishedImage)'
    BY CallNext, ImageNext, NamesApart
  <1> QED BY <1>1, <1>2, PTL DEF Spec

-----------------------------------------------------------------------------
\* The image a call answers with was built for a service of its tag.
AnswerInv == \A c \in Calls : answer[c] \in Builds => Tag(answer[c][1]) = Tag(c)

LEMMA AnswerNext ==
  ASSUME NamesApart, CallInv, AnswerInv, [Next]_vars
  PROVE AnswerInv'
  <1> SUFFICES ASSUME NEW c \in Calls, answer'[c] \in Builds
               PROVE Tag(answer'[c][1]) = Tag(c)
    BY DEF AnswerInv
  <1>1. CASE answer'[c] = answer[c]
    BY <1>1 DEF AnswerInv
  <1>2. CASE Resolve(c)
    <2>1. PICK found \in ({tagged[Tag(c)]} \ {NoBuild}) \union {Failed} : Return(c, found)
      BY <1>2 DEF Resolve
    <2>2. answer'[c] = found
      BY <2>1 DEF Return, CallInv, TypeOK
    <2>3. found = tagged[Tag(c)] /\ found # NoBuild
      BY <2>1, <2>2 DEF NamesApart
    <2>4. Tag(c) \in Tags
      BY DEF Tags
    <2> QED BY <2>2, <2>3, <2>4 DEF CallInv, TagInv
  <1> QED BY <1>1, <1>2, OnlyResolveAnswers

\* Whatever pushes and retries come in between, a call is only ever given an image
\* that was built from the context and for the platforms it asked for, if perhaps for
\* another service (Create, resolveECRDigest).
THEOREM TagsMatch ==
  ASSUME NamesApart
  PROVE Spec => [](\A c \in Calls : answer[c] \in Builds => Tag(answer[c][1]) = Tag(c))
  <1>1. Init => CallInv /\ AnswerInv
    BY CallInit, NamesApart DEF Init, AnswerInv, NamesApart
  <1>2. CallInv /\ AnswerInv /\ [Next]_vars => (CallInv /\ AnswerInv)'
    BY CallNext, AnswerNext, NamesApart
  <1> QED BY <1>1, <1>2, PTL DEF Spec, AnswerInv

\* Different services have different tags.
OwnTags == \A c, d \in Calls : Tag(c) = Tag(d) => c = d

\* So no service is given the image of another one when their tags differ (image.go:
\* "a tag no other build could have overwritten").
THEOREM ImagesAreOwn ==
  ASSUME NamesApart, OwnTags
  PROVE Spec => []OwnTag
  <1>1. TypeOK /\ (\A c \in Calls : answer[c] \in Builds => Tag(answer[c][1]) = Tag(c))
          => OwnTag
    BY OwnTags DEF OwnTags, OwnTag, Builds
  <1> QED BY <1>1, TypeCorrect, TagsMatch, NamesApart, PTL

-----------------------------------------------------------------------------
\* The images of a call's builds, as BuildContract sees them.
Made == [c \in Calls |-> {b \in pushed : b[1] = c}]

\* The image that a call's tag names is one of its own.
LEMMA TagIsOwn ==
  ASSUME CallInv, OwnTags, NEW c \in Calls, tagged[Tag(c)] # NoBuild
  PROVE tagged[Tag(c)] \in Made[c]
  <1>1. Tag(c) \in Tags
    BY DEF Tags
  <1>2. tagged[Tag(c)] \in pushed /\ Tag(tagged[Tag(c)][1]) = Tag(c)
    BY <1>1 DEF CallInv, TagInv
  <1>3. tagged[Tag(c)][1] \in Calls
    BY <1>2 DEF CallInv, TypeOK, Builds
  <1> QED BY <1>2, <1>3 DEF OwnTags, Made

\* A call that returns answers its caller, as the contract has it.
LEMMA ReturnAnswers ==
  ASSUME CallInv, NEW c \in Calls, phase[c] # "done", NEW a \in Made[c] \union {Failed},
         Return(c, a), UNCHANGED pushed
  PROVE Contract!Next
  <1>1. answer[c] = NoAnswer
    BY DEF CallInv, PendingInv
  <1>2. Contract!Answer(c)
    BY <1>1 DEF Contract!Answer, Made, Return
  <1> QED BY <1>2 DEF Contract!Next

\* One that starts another attempt has not told its caller anything.
LEMMA RetryAnswers ==
  ASSUME CallInv, NEW c \in Calls, phase[c] # "done", NEW r \in BOOLEAN,
         Retry(c, r), UNCHANGED pushed
  PROVE Contract!Next \/ UNCHANGED <<Made, answer>>
  <1>1. CASE Return(c, Failed)
    BY <1>1, ReturnAnswers
  <1>2. CASE answer' = answer
    BY <1>2 DEF Made
  <1> QED BY <1>1, <1>2 DEF Retry

LEMMA PushMade ==
  ASSUME CallInv, NEW b \in Builds, PushImage(b)
  PROVE Contract!Next
  <1>1. b[1] \in Calls
    BY DEF Builds
  <1>2. \A d \in Calls : b \notin Made[d]
    BY DEF PushImage, Made
  <1>3. Made' = [Made EXCEPT ![b[1]] = @ \union {b}]
    <2>1. \A d \in Calls : Made'[d] = IF d = b[1] THEN Made[d] \union {b} ELSE Made[d]
      BY DEF PushImage, Made
    <2> QED BY <1>1, <2>1 DEF Made
  <1>4. Contract!Push(b[1], b)
    BY <1>1, <1>2, <1>3 DEF Contract!Push, Made, PushImage
  <1> QED BY <1>1, <1>4 DEF Contract!Next

LEMMA RefineNext ==
  ASSUME CallInv, [Next]_vars, OwnTags
  PROVE Contract!Next \/ UNCHANGED <<Made, answer>>
  <1>1. ASSUME NEW c \in Calls, StartBuild(c) PROVE UNCHANGED <<Made, answer>>
    BY <1>1 DEF StartBuild, Made
  <1>2. ASSUME NEW c \in Calls, StartFails(c) \/ GiveUp(c)
        PROVE Contract!Next \/ UNCHANGED <<Made, answer>>
    BY <1>2, RetryAnswers DEF StartFails, GiveUp
  <1>3. ASSUME NEW c \in Calls, Poll(c) PROVE Contract!Next \/ UNCHANGED <<Made, answer>>
    <2>1. CASE status[Current(c)] = "succeeded"
      BY <1>3, <2>1 DEF Poll, Made
    <2>2. CASE status[Current(c)] # "succeeded"
      BY <1>3, <2>2, RetryAnswers DEF Poll, Retryable
    <2> QED BY <2>1, <2>2
  <1>4. ASSUME NEW c \in Calls, Cancel(c) PROVE Contract!Next
    BY <1>4, ReturnAnswers DEF Cancel
  <1>5. ASSUME NEW c \in Calls, Resolve(c) PROVE Contract!Next
    BY <1>5, ReturnAnswers, TagIsOwn DEF Resolve
  <1>6. ASSUME NEW b \in Builds, PushImage(b) PROVE Contract!Next
    BY <1>6, PushMade
  <1>7. ASSUME NEW b \in Builds, End(b) PROVE UNCHANGED <<Made, answer>>
    BY <1>7 DEF End, Made
  <1>8. CASE UNCHANGED vars
    BY <1>8 DEF vars, Made
  <1> QED BY <1>1, <1>2, <1>3, <1>4, <1>5, <1>6, <1>7, <1>8, NextSteps

\* For any number of services with tags of their own, building at the same time in
\* one repository, every call fails or answers with an image of its own.
THEOREM Refinement ==
  ASSUME OwnTags
  PROVE Spec => ImplementsContract
  <1>1. Init => Contract!Init
    BY DEF Init, Contract!Init
  <1>2. CallInv /\ [Next]_vars => [Contract!Next]_<<Made, answer>>
    BY RefineNext, OwnTags
  <1> QED
    BY <1>1, <1>2, CallInit, CallNext, PTL DEF Spec, ImplementsContract, Contract!Spec, Made

==============================================================================
