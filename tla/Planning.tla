-------------------------------- MODULE Planning -------------------------------
(***************************************************************************)
(* From a recording to the steps that a run repeats: the recorded events   *)
(* become steps, the analysis finds parameters in their values, a template *)
(* puts a placeholder where a parameter was typed, a plan puts the values  *)
(* of the run in their place, and the run keeps a snapshot of the steps.   *)
(* In between the person may save other steps: nothing is analysed again.  *)
(*                                                                         *)
(* One request at a time; WorkflowStore lets them overlap.  The heuristic  *)
(* analysis is modelled; one of the AI takes its place when there is a key.*)
(***************************************************************************)
EXTENDS Naturals, Sequences, FiniteSets, SequencesExt, TLC

CONSTANTS Values,       \* what is typed, gone to or read on an element; "" is not one
          Trim,         \* [Values -> Values]: without the spaces around
          Hinted,       \* [Values -> Seq(STRING)]: PARAMETER_PATTERNS that match
          Digits,       \* the values of type number
          Given,        \* what a run may be given for a parameter
          Offered,      \* what a connector fills in, if it can be reached
          MaxSteps,     \* bound: events of the recording
          MaxEdited,    \* bound: steps of a workflow that is changed after its recording
          MaxBindings,  \* bound: bindings at a time
          MaxSaves      \* bound: saves of other steps

ASSUME PlanningAssumption ==
    /\ "" \notin Values /\ Trim \in [Values -> Values]
    /\ \A v \in Values : Trim[Trim[v]] = Trim[v]
    /\ {MaxSteps, MaxEdited, MaxBindings, MaxSaves} \subseteq Nat

VARIABLES steps,        \* the stored steps
          prompt,       \* of the workflow: its goal, if it has one
          params,       \* the stored parameters
          strategy,     \* replay_strategy of the stored analysis
          notes,        \* it has ambiguity_notes
          template,     \* the active template
          bound,        \* the keys that have a binding to a connector
          run,          \* the last run since the steps were saved or analysed
          analyzed,     \* history: nobody has saved steps since the analysis
          saves

vars == <<steps, prompt, params, strategy, notes, template, bound, run, analyzed, saves>>

\* A value is text or a reference {{key}} to a parameter.
Text(v) == <<"text", v>>
Ref(k) == <<"ref", k>>
Nothing == Text("")
IsText(x) == x[1] = "text" /\ x # Nothing

\* What a run or a workflow is for: not said, something, or a search.
Goals == {"", "other", "search"}

Kinds == {"type", "navigate", "send", "click", "link", "scroll", "copy"}

\* An event of the recorder; el is the element.  Send is a click with the intent
\* to send, link one on a link, click one without intent.  The value of a click and
\* of a copy is the text of its element, if it has one, and that of a scroll its place.
Events ==
    {e \in [kind : Kinds, el : {1, 2}, value : Values \cup {""}] :
        /\ e.kind \in {"type", "navigate", "scroll"} => e.value # ""
        /\ e.kind = "scroll" => e.value \in Digits
        /\ e.kind # "type" /\ e.value # "" => Trim[e.value] = e.value
        /\ e.kind # "type" => e.el = 1}

\* What was recorded: element 1 is the one that is typed into first.
Recordings ==
    {events \in UNION {[1..n -> Events] : n \in 1..MaxSteps} :
        \A i \in DOMAIN events :
            events[i].el = 2 => \E j \in 1..(i - 1) : events[j].kind = "type" /\ events[j].el = 1}

NoRun == [mode |-> "none", given |-> <<>>, resolved |-> <<>>, goal |-> "",
          made |-> FALSE, steps |-> <<>>]

Init ==
    /\ steps = <<>> /\ params = <<>> /\ template = <<>>
    /\ prompt \in {"", "search"} /\ strategy = "none" /\ notes = FALSE /\ bound = {}
    /\ run = NoRun /\ analyzed = FALSE /\ saves = 0
--------------------------------------------------------------------------------
(* Recording. *)

\* The elements of ss at the positions I, in their order.
Picked(ss, I) ==
    LET upTo[n \in 0..Len(ss)] ==
            IF n = 0 THEN <<>>
            ELSE IF n \in I THEN Append(upTo[n - 1], ss[n]) ELSE upTo[n - 1]
    IN  upTo[Len(ss)]

\* Events of typing the same again into the same element are one.
Deduped(events) ==
    Picked(events, {i \in DOMAIN events :
        ~(i > 1 /\ events[i].kind = "type" /\ events[i] = events[i - 1])})

\* The last thing that was typed up to event i.
LastTyped(events, i) ==
    LET typed == {j \in 1..i : events[j].kind = "type"}
    IN  IF typed = {} THEN Nothing
        ELSE Text(events[CHOOSE j \in typed : \A k \in typed : k <= j].value)

\* What must hold after the step: the element has the value, the page shows it.
Expectation(events, i) ==
    IF events[i].kind \in {"type", "send"} THEN LastTyped(events, i) ELSE Nothing

Recorded(events) ==
    [i \in DOMAIN events |-> [at |-> i, kind |-> events[i].kind, value |-> Text(events[i].value),
                              expects |-> Expectation(events, i)]]
--------------------------------------------------------------------------------
(* The analysis. *)

KeysOf(ps) == {ps[i].key : i \in DOMAIN ps}

\* The key that the value v of step s suggests, "" if none: that of the first
\* pattern not used yet, or one of its own unless the value was typed before.
Candidate(ps, s, v) ==
    LET hints == SelectSeq(Hinted[v], LAMBDA k : k \notin KeysOf(ps))
    IN  IF s.kind = "navigate" THEN "url_target"
        ELSE IF hints # <<>> THEN hints[1]
        ELSE IF \E i \in DOMAIN ps : ps[i].default = v /\ ps[i].key # "url_target" THEN ""
        ELSE "input_" \o ToString(s.at)

\* The parameters ps and that of step s, if it has a new one.
WithParameter(ps, s) ==
    LET v == Trim[s.value[2]]
        key == Candidate(ps, s, v)
    IN  IF \/ s.kind \notin {"type", "navigate"} \/ ~IsText(s.value)
           \/ key = "" \/ key \in KeysOf(ps)
        THEN ps
        ELSE Append(ps, [key |-> key, default |-> v, at |-> s.at])

\* _detect_parameter_candidates
Parameters(ss) ==
    LET upTo[n \in 0..Len(ss)] ==
            IF n = 0 THEN <<>> ELSE WithParameter(upTo[n - 1], ss[n])
    IN  upTo[Len(ss)]

\* _classify_steps_heuristic, as far as it decides something.
Classified(s) ==
    CASE s.kind = "scroll" -> "scroll_page"
      [] s.kind = "copy" -> "extract_data"
      [] s.kind = "link" -> "open_detail"
      [] s.kind \in {"click", "send"} -> "interact"
      [] OTHER -> "entry"

\* _detect_ambiguity_notes: without a prompt, scrolling, copying and clicks whose
\* description is not an intent.
Ambiguous(ss) ==
    /\ prompt = ""
    /\ \E i \in DOMAIN ss :
           \/ ss[i].kind \in {"scroll", "copy"}
           \/ Classified(ss[i]) = "interact" /\ ss[i].kind = "click"

\* _infer_replay_strategy
Strategy(ss, ps) ==
    IF \/ Ambiguous(ss)
       \/ /\ prompt # ""
          /\ \E i \in DOMAIN ss :
                 Classified(ss[i]) \in {"scroll_page", "extract_data", "open_detail"}
    THEN "semantic"
    ELSE IF ps # <<>> THEN "parameterized" ELSE "literal"

\* analyze_workflow: the template before is gone.
Analysis(ss) ==
    /\ params' = Parameters(ss) /\ strategy' = Strategy(ss, Parameters(ss))
    /\ notes' = Ambiguous(ss)
    /\ template' = <<>> /\ analyzed' = TRUE /\ run' = NoRun

\* POST /workflows/record.
Record ==
    /\ steps = <<>>
    /\ \E events \in Recordings :
           /\ steps' = Recorded(Deduped(events))
           /\ Analysis(Recorded(Deduped(events)))
    /\ UNCHANGED <<prompt, bound, saves>>

\* POST /workflows/{id}/analyze.
Analyze ==
    /\ steps # <<>> /\ Analysis(steps)
    /\ UNCHANGED <<steps, prompt, bound, saves>>

Renumbered(ss) == [i \in DOMAIN ss |-> [ss[i] EXCEPT !.at = i]]

\* PUT /workflows/{id}/steps: a step is removed, or its value changed.
Save ==
    /\ steps # <<>> /\ Len(steps) <= MaxEdited /\ saves < MaxSaves
    /\ \E i \in DOMAIN steps :
           \/ Len(steps) > 1 /\ steps' = Renumbered(RemoveAt(steps, i))
           \/ \E v \in Values :
                  steps[i].kind = "type" /\ steps' = [steps EXCEPT ![i].value = Text(v)]
    /\ saves' = saves + 1 /\ run' = NoRun /\ analyzed' = FALSE
    /\ UNCHANGED <<prompt, params, strategy, notes, template, bound>>

\* PUT and DELETE /workflows/{id}/connector-bindings/{key}.
Bind(key) ==
    /\ Len(steps) <= MaxEdited
    /\ \/ /\ key \in KeysOf(params) /\ Cardinality(bound \cup {key}) <= MaxBindings
          /\ bound' = bound \cup {key}
       \/ key \in bound /\ bound' = bound \ {key}
    /\ UNCHANGED <<steps, prompt, params, strategy, notes, template, run, analyzed, saves>>
--------------------------------------------------------------------------------
(* The template. *)

\* defaults_to_param: of two parameters with one default, the later.
ByDefault(x) ==
    LET having == {i \in DOMAIN params : IsText(x) /\ params[i].default = x[2]}
    IN  IF having = {} THEN x
        ELSE Ref(params[CHOOSE i \in having : \A j \in having : j <= i].key)

\* Mutant: what a step with a parameter of its own expects stays as it was.
TemplateStepLiteral(s) ==
    LET own == {i \in DOMAIN params : params[i].at = s.at}
    IN  IF own # {} THEN [s EXCEPT !.value = Ref(params[CHOOSE i \in own : TRUE].key)]
        ELSE [s EXCEPT !.value = ByDefault(@), !.expects = ByDefault(@)]

\* A step with a parameter of its own refers to it, and so does what it expects
\* if that was the same; other values and expectations refer by their default,
\* but what is expected beside a value that does only if it is the same.
TemplateStep(s) ==
    LET own == {i \in DOMAIN params : params[i].at = s.at}
        mine == Ref(params[CHOOSE i \in own : \A j \in own : i <= j].key)
    IN  IF own # {}
        THEN [s EXCEPT !.value = mine,
                       !.expects = IF @ = s.value THEN mine ELSE ByDefault(@)]
        ELSE [s EXCEPT !.value = ByDefault(@),
                       !.expects = IF ByDefault(s.value) # s.value /\ @ # s.value
                                   THEN @ ELSE ByDefault(@)]

\* generate_template: of the stored steps and parameters, as they are now.
Generated == [i \in DOMAIN steps |-> TemplateStep(steps[i])]
--------------------------------------------------------------------------------
(* The plan. *)

\* resolve_runtime_params: the bindings of what is not given, as far as their
\* connectors answer.
Completed(given, offers) ==
    [k \in DOMAIN given \cup offers |-> IF k \in DOMAIN given THEN given[k] ELSE Offered]

\* Mutant: a default comes before what the run was given.
ValueByDefault(key, given) == params[CHOOSE i \in DOMAIN params : params[i].key = key].default

\* _resolve_param_value
ValueFor(key, given) ==
    IF key \in DOMAIN given THEN given[key]
    ELSE params[CHOOSE i \in DOMAIN params : params[i].key = key].default

\* Mutant: only the parameters that the run was given are put in.
ResolvedGiven(x, given) ==
    LET y == ByDefault(x)
    IN  IF y[1] = "ref" /\ y[2] \in DOMAIN given THEN Text(given[y[2]]) ELSE x

\* substitute_parameters: references, and texts that are a default.
Resolved(x, given) ==
    LET y == ByDefault(x)
    IN  IF y[1] = "ref" /\ y[2] \in KeysOf(params) THEN Text(ValueFor(y[2], given)) ELSE x

Substituted(ss, given) ==
    [i \in DOMAIN ss |-> [ss[i] EXCEPT !.value = Resolved(@, given),
                                       !.expects = Resolved(@, given)]]

\* validate_parameters: a number where a number was typed.
Valid(given) ==
    \A i \in DOMAIN params :
        params[i].key \in DOMAIN given /\ params[i].default \in Digits
        => given[params[i].key] \in Digits

\* _compact_semantic_steps: no scrolling, if the goal has a word like "search".
Compacted(ss, goal) ==
    LET rest == Picked(ss, {i \in DOMAIN ss : goal # "search" \/ ss[i].kind # "scroll"})
    IN  IF rest = <<>> THEN ss ELSE rest

\* build_execution_plan: the mode, and the steps if the plan has any.
Mode(given, goal) ==
    IF strategy = "semantic" /\ notes /\ goal = "" THEN "confirmation_required"
    ELSE IF strategy = "parameterized" /\ given # <<>>
         THEN IF Valid(given) THEN "substituted" ELSE "validation_failed"
    ELSE IF strategy = "semantic" \/ goal # "" THEN "goal_driven" ELSE "recorded"

PlanSteps(mode, data, given, goal) ==
    CASE mode = "substituted" -> Substituted(data, given)
      [] mode = "goal_driven" ->
             Compacted(IF given = <<>> THEN data ELSE Substituted(data, given),
                       IF goal = "" THEN prompt ELSE goal)

\* _substitute_runtime_params: only the references to what the run was given.
Placed(x, given) ==
    IF x[1] = "ref" /\ x[2] \in DOMAIN given THEN Text(given[x[2]]) ELSE x

\* create_run without a plan of steps.  generate_template wrote the references
\* into the very expectations of the steps that this request has in memory.
Snapshot(made, given) ==
    [i \in DOMAIN steps |->
        [steps[i] EXCEPT !.value = Placed(@, given),
                         !.expects = Placed(IF made THEN Generated[i].expects ELSE @, given)]]

\* POST /workflows/{id}/run-with-params.
RunWith(given, goal, offers) ==
    LET made == template = <<>>
        data == IF made THEN Generated ELSE template
        resolved == Completed(given, offers)
        mode == Mode(resolved, goal)
    IN  /\ steps # <<>>
        /\ template' = data
        /\ run' = IF mode = "confirmation_required" THEN run
                  ELSE [mode |-> mode, given |-> given, resolved |-> resolved, goal |-> goal,
                        made |-> made,
                        steps |-> IF mode \in {"substituted", "goal_driven"}
                                  THEN PlanSteps(mode, data, resolved, goal)
                                  ELSE Snapshot(made, given)]
        /\ UNCHANGED <<steps, prompt, params, strategy, notes, bound, analyzed, saves>>

\* POST /workflows/{id}/run: the stored steps.
Run ==
    /\ steps # <<>>
    /\ run' = [NoRun EXCEPT !.mode = "recorded", !.steps = Snapshot(FALSE, <<>>)]
    /\ UNCHANGED <<steps, prompt, params, strategy, notes, template, bound, analyzed, saves>>

Next ==
    \/ Record \/ Analyze \/ Save \/ Run
    \/ \E key \in KeysOf(params) \cup bound : Bind(key)
    \/ \E keys \in SUBSET KeysOf(params) : \E given \in [keys -> Given], goal \in Goals :
           \E offers \in SUBSET (bound \ keys) : RunWith(given, goal, offers)

Spec == Init /\ [][Next]_vars
--------------------------------------------------------------------------------
\* Types, and: no two parameters have one key or one step.
TypeOK ==
    /\ \A k \in DOMAIN run.given : run.resolved[k] = run.given[k]
    /\ strategy \in {"none", "literal", "parameterized", "semantic"}
    /\ saves \in 0..MaxSaves
    /\ run.mode \in {"none", "recorded", "substituted", "validation_failed", "goal_driven"}
    /\ \A i, j \in DOMAIN params :
        params[i].key = params[j].key \/ params[i].at = params[j].at => i = j

\* What the step recorded as s may have become in the run: what was recorded, or
\* what the run was given for the parameter whose default was recorded.
MayType(s, v) ==
    \/ v = s.value
    \/ \E i \in DOMAIN params : /\ IsText(s.value) /\ Trim[s.value[2]] = params[i].default
                                /\ v = Text(ValueFor(params[i].key, run.resolved))

\* As long as nobody saves steps without analysing them, a run repeats the
\* recording: step by step, scrolling aside, it types what was recorded or what was
\* given or filled in for just that.  Only a goal-driven run without either still has
\* placeholders.  To save the old steps back is not enough: a run in between may have
\* made a template of the others, and it stays.
Faithful ==
    analyzed =>
        \A i \in DOMAIN run.steps :
            LET s == run.steps[i]
            IN  /\ s.kind = steps[s.at].kind
                /\ \/ MayType(steps[s.at], s.value)
                   \/ run.mode = "goal_driven" /\ run.resolved = <<>>

\* What the run was given for a parameter is what its step types, in every mode
\* that has the steps of the template, whatever a connector would fill in.
GivenIsTyped ==
    analyzed /\ run.mode \in {"substituted", "goal_driven"} =>
        \A k \in DOMAIN run.given : \E i \in DOMAIN run.steps :
            /\ run.steps[i].value = Text(run.given[k])
            /\ \E j \in DOMAIN params : params[j].key = k /\ params[j].at = run.steps[i].at

\* A step that types expects what it types, a click that sends what was typed last.
Consistent(ss) ==
    \A i \in DOMAIN ss :
        /\ ss[i].kind = "type" => ss[i].expects = ss[i].value
        /\ ss[i].kind = "send" =>
              \A j \in 1..i : /\ ss[j].kind = "type"
                              /\ \A k \in (j + 1)..i : ss[k].kind # "type"
                              => ss[i].expects = ss[j].value

\* A button to send has a text that was also typed: the template rewrites the text
\* and then leaves what the step expects, whatever it is.
SendsByDefault ==
    \E i \in DOMAIN steps, j \in DOMAIN params :
        steps[i].kind = "send" /\ steps[i].value = Text(params[j].default)

\* If the stored steps expect what they type, so do those of a run, whatever it was
\* given.  Not so when two parameters have the same default, or a value has spaces
\* around it that its parameter has not; not in a run that repeats the recording
\* but whose request made the template: it expects the placeholders; and not where
\* placeholders are typed and the text of a button to send is a default.
ExpectsWhatItTypes ==
    /\ analyzed /\ Consistent(steps)
    /\ \A i, j \in DOMAIN params : params[i].default = params[j].default => i = j
    /\ \A i \in DOMAIN steps : IsText(steps[i].value) => Trim[steps[i].value[2]] = steps[i].value[2]
    /\ ~(run.made /\ run.mode \in {"recorded", "validation_failed"})
    /\ ~(run.mode = "goal_driven" /\ run.resolved = <<>> /\ SendsByDefault)
    => Consistent(run.steps)
================================================================================
