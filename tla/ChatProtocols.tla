--------------------------- MODULE ChatProtocols ---------------------------
(***************************************************************************)
(* What a chat request says on its way to an upstream, and what the answer *)
(* says on its way back: the adapters of the entrances, the protocol       *)
(* profile of the candidate, the rendering of the body, the decoders of    *)
(* the three protocol families, and the renderers of the replies.          *)
(*                                                                         *)
(* Two paths use them. The gateway runs the steps request_adapter,         *)
(* template_render and response_transform; the credits proxy builds the    *)
(* upstream request from the canonical one.                                *)
(*                                                                         *)
(* A text is a sequence of words. The word i >= 1 is the content of the    *)
(* client's i-th message, 0 the platform's own prompt, and -i the Python   *)
(* representation of an object that holds the content i.                   *)
(***************************************************************************)
EXTENDS Integers, Sequences, SequencesExt

CONSTANTS
  Shapes,      \* roles of the client's messages: a set of sequences
  MaxBlocks,   \* bound on the text blocks of an answer
  MaxTools     \* bound on the tool calls of an answer

VARIABLES
  stage,       \* what comes next
  path,        \* "gateway" or "proxy"
  raw,         \* the request as it came
  adapted,     \* the messages of validation.request
  canonical,   \* protocol.canonical_request
  profile,     \* routing.protocol_profile
  body,        \* template_render.request_body, or the proxy's forward body
  reply,       \* what the upstream says
  answer       \* what the client gets, and the tokens that are billed

chatVars == <<stage, path, raw, adapted, canonical, profile, body, reply, answer>>

Families == {"openai_chat", "openai_responses", "anthropic_messages"}
Message(r, t) == [role |-> r, text |-> t]
Words(messages) == FlattenSeq([i \in DOMAIN messages |-> messages[i].text])
Systems(messages) == SelectSeq(messages, LAMBDA m : m.role = "system")
Others(messages) == SelectSeq(messages, LAMBDA m : m.role # "system")

(***************************************************************************)
(* The request.                                                            *)
(***************************************************************************)

\* The form of the contents: a string; a list of blocks or of inputs; an object.
Forms(vendor) ==
  CASE vendor = "openai"    -> {"str"}
    [] vendor = "anthropic" -> {"str", "list"}
    [] vendor = "responses" -> {"str", "list", "dict"}

\* /responses has one input besides the system text, unless it is a list.
Raws ==
  { r \in [vendor : {"openai", "anthropic", "responses"}, roles : Shapes,
           form : {"str", "list", "dict"}] :
      /\ r.form \in Forms(r.vendor)
      /\ r.vendor # "openai" => \A i \in 2..Len(r.roles) : r.roles[i] # "system"
      /\ r.vendor = "responses" =>
           /\ \A i \in DOMAIN r.roles : r.roles[i] # "assistant"
           /\ r.form # "list" => Len(Others([i \in DOMAIN r.roles |-> Message(r.roles[i], <<i>>)])) = 1 }

\* The client's messages, the content of each written by f.
Sent(r, f(_)) ==
  [i \in DOMAIN r.roles |-> Message(r.roles[i], IF r.roles[i] = "system" THEN <<i>> ELSE f(i))]

AdaptOpenaiChat(r) == Sent(r, LAMBDA i : <<i>>)

\* The schema parses a block into an AnthropicContentBlock, which is no dict: its
\* representation is what the text gets.
AdaptAnthropicMessages(r) == Sent(r, LAMBDA i : <<IF r.form = "list" THEN -i ELSE i>>)

AdaptResponsesRequest(r) ==
  LET sent == Sent(r, LAMBDA i : <<IF r.form = "dict" THEN -i ELSE i>>)
  IN  Append(Systems(sent), Message("user", Words(Others(sent))))

\* RequestAdapterStep._adapt_request
AdaptRequest(r) ==
  CASE r.vendor = "openai"    -> AdaptOpenaiChat(r)
    [] r.vendor = "anthropic" -> AdaptAnthropicMessages(r)
    [] r.vendor = "responses" -> AdaptResponsesRequest(r)

\* The system texts are the instructions, and stay among the messages.
CanonicalChat(r) ==
  LET sent == AdaptOpenaiChat(r)
  IN  [instructions |-> Words(Systems(sent)), messages |-> sent, items |-> <<>>]

\* Blocks are dumped first and keep their text.
CanonicalAnthropic(r) ==
  LET sent == AdaptOpenaiChat(r)
  IN  [instructions |-> Words(Systems(sent)), messages |-> Others(sent), items |-> <<>>]

\* An object without a text field is an item without a text.
CanonicalResponses(r) ==
  LET sent == AdaptOpenaiChat(r) IN
  [instructions |-> Words(Systems(sent)), messages |-> <<>>,
   items |-> [i \in DOMAIN Others(sent) |-> IF r.form = "dict" THEN <<>> ELSE Others(sent)[i].text]]

AdaptCanonical(r) ==
  CASE r.vendor = "openai"    -> CanonicalChat(r)
    [] r.vendor = "anthropic" -> CanonicalAnthropic(r)
    [] r.vendor = "responses" -> CanonicalResponses(r)

(***************************************************************************)
(* The profile. A template is a dict whose messages (or input) are null,   *)
(* to be filled from the request, or the builtin dict with Jinja texts.    *)
(***************************************************************************)
Profile == [family : Families,
            engine : {"openai_compat", "simple_replace", "anthropic_messages", "jinja2"},
            template : {"messages", "input", "messages_jinja", "input_jinja"},
            decoder : Families \cup {""}]

Builtin ==
  [openai_chat |-> [family |-> "openai_chat", engine |-> "openai_compat", template |-> "messages",
                    decoder |-> "openai_chat"],
   openai_responses |-> [family |-> "openai_responses", engine |-> "jinja2",
                         template |-> "input_jinja", decoder |-> "openai_responses"],
   anthropic_messages |-> [family |-> "anthropic_messages", engine |-> "jinja2",
                           template |-> "messages_jinja", decoder |-> "anthropic_messages"]]

TemplateMatchesFamily(t, family) ==
  IF family = "openai_responses" THEN t \in {"input", "input_jinja"}
  ELSE t \in {"messages", "messages_jinja"}

\* What presets hold: the builtin profiles, or those made from older settings, with
\* the engine of those; a preset may leave the name of the decoder empty.
Stored ==
  { p \in Profile :
      /\ TemplateMatchesFamily(p.template, p.family)
      /\ p.decoder \in {p.family, ""}
      /\ p.engine = "jinja2" <=> p.template \in {"messages_jinja", "input_jinja"}
      /\ p.template = "messages_jinja" \/ p.engine = "anthropic_messages"
           => p.family = "anthropic_messages" }

\* _rebase_profile_family, for the family that protocol and path ask for.
Rebase(stored, family) ==
  IF TemplateMatchesFamily(stored.template, family)
  THEN [Builtin[family] EXCEPT !.template = stored.template, !.engine = stored.engine]
  ELSE Builtin[family]

\* build_protocol_profile_from_preset
ProfileFromPreset(stored, family) ==
  IF stored.family = family THEN stored ELSE Rebase(stored, family)

(***************************************************************************)
(* The body. kind tells what the upstream finds where it looks for the     *)
(* conversation: a list of messages, a text, or the whole request as an    *)
(* object. A Jinja text of a list is its representation.                   *)
(***************************************************************************)
Represented(messages) == [i \in DOMAIN Words(messages) |->
                            IF Words(messages)[i] > 0 THEN -Words(messages)[i] ELSE Words(messages)[i]]

Listed(messages) == [kind |-> "messages", messages |-> messages, system |-> <<>>, tools |-> FALSE]
Written(text, system) ==
  [kind |-> "text", messages |-> <<Message("user", text)>>, system |-> system, tools |-> FALSE]
Whole(messages) == [kind |-> "request", messages |-> messages, system |-> <<>>, tools |-> FALSE]

\* A null is filled from the context: `input' there is the request itself.
FillNull(t, c) == IF t = "messages" THEN Listed(c.messages) ELSE Whole(c.messages)

\* The builtin Jinja texts: the anthropic one names the instructions and the list of
\* messages, that of the responses family the text of the first input item.
FillJinja(t, c) ==
  IF t = "messages_jinja" THEN Written(Represented(c.messages), c.instructions)
  ELSE Written(IF c.items = <<>> THEN <<>> ELSE c.items[1], <<>>)

\* The gateway's context has neither instructions nor input items.
GatewayContext(messages) == [instructions |-> <<>>, messages |-> messages, items |-> <<>>]

\* request_renderer.render
RenderGateway(p, c) == IF p.engine = "jinja2" THEN FillJinja(p.template, c) ELSE FillNull(p.template, c)

\* _inject_tools: a Jinja template is left to name the tools itself.
InjectTools(p, b) == [b EXCEPT !.tools = p.engine # "jinja2"]

\* TemplateRenderStep._render_body puts its prompt before the first system message,
\* or makes one; only into a list.
InjectPrompt(b) ==
  LET at == {i \in DOMAIN b.messages : b.messages[i].role = "system"} IN
  IF b.kind # "messages" THEN b
  ELSE IF at = {} THEN [b EXCEPT !.messages = <<Message("system", <<0>>)>> \o @]
  ELSE [b EXCEPT !.messages[CHOOSE i \in at : \A j \in at : i <= j].text = <<0>> \o @]

\* The proxy gives an upstream of the responses family one item of all that is
\* not a system text.
ProxyItems(p, c) ==
  IF p.family = "openai_responses" /\ c.items = <<>> /\ Others(c.messages) # <<>>
  THEN <<Words(Others(c.messages))>> ELSE c.items
ProxyContext(p, c) == [c EXCEPT !.items = ProxyItems(p, c)]

\* runtime_request_renderer.render
RenderProxy(p, c) == IF p.engine = "jinja2" THEN FillJinja(p.template, c) ELSE FillNull(p.template, c)

(***************************************************************************)
(* The answer: texts in blocks, tool calls, tokens. An upstream of the     *)
(* responses family may say the text again in output_text.                 *)
(***************************************************************************)
Replies ==
  { r \in [blocks : 0..MaxBlocks, calls : 0..MaxTools, thinks : BOOLEAN, echoes : BOOLEAN,
           input : {1}, output : {2}, total : {0, 3}] :
      r.calls + r.blocks > 0 }

\* The i-th word of the answer.
Blocks(r) == [i \in 1..r.blocks |-> i]

Decoded(text, calls, objects, input, output, total) ==
  [text |-> text, calls |-> calls, objects |-> objects,
   input |-> input, output |-> output, total |-> total]

\* One string holds the text, the arguments are a string.
DecodeOpenaiChat(r) == Decoded(Blocks(r), r.calls, FALSE, r.input, r.output, r.total)

\* output_text is what the messages' texts are appended to.
DecodeOpenaiResponses(r) ==
  Decoded((IF r.echoes THEN Blocks(r) ELSE <<>>) \o Blocks(r), r.calls, FALSE,
          r.input, r.output, r.total)

\* The arguments of a tool call stay an object.
DecodeAnthropic(r) == Decoded(Blocks(r), r.calls, TRUE, r.input, r.output, r.input + r.output)

\* decode_response reads a payload as OpenAI's when the decoder has no name; in that of
\* another family it finds the tokens and no text.
Decode(p, r) ==
  CASE p.decoder = "openai_responses"   -> DecodeOpenaiResponses(r)
    [] p.decoder = "anthropic_messages" -> DecodeAnthropic(r)
    [] p.family = "openai_chat"         -> DecodeOpenaiChat(r)
    [] OTHER -> Decoded(<<>>, 0, FALSE, r.input, r.output, r.total)

\* response_transformer.transform, without a decoder: by the engine of the request.
\* What is not adapted is passed through: unless the upstream speaks as OpenAI does, it
\* has no choices, and a total among the tokens hides the names of the other two.
Adapted(r) == Decoded(Blocks(r), r.calls, FALSE, r.input, r.output, r.input + r.output)
PassedThrough(family, r) ==
  CASE family = "openai_chat" -> DecodeOpenaiChat(r)
    [] family = "openai_responses" /\ r.total > 0 -> Decoded(<<>>, 0, FALSE, 0, 0, r.total)
    [] OTHER -> Decoded(<<>>, 0, FALSE, r.input, r.output, r.input + r.output)
Transform(p, r) ==
  IF p.engine = "anthropic_messages" THEN Adapted(r)
  ELSE PassedThrough(p.family, r)

\* build_normalized_blocks: thoughts, then the text, then the calls; the arguments
\* of a call become a string.
NormalizedBlocks(r, d) ==
  (IF r.thinks THEN <<"thought">> ELSE <<>>) \o (IF d.text # <<>> THEN <<"text">> ELSE <<>>)
    \o [i \in 1..d.calls |-> "tool_call"]

\* ResponseTransformStep._extract_usage; a total the upstream leaves out counts 0.
ExtractUsage(d) == [input |-> d.input, output |-> d.output, total |-> d.total]

RenderChatCompletion(r, d) ==
  [text |-> d.text, calls |-> d.calls, objects |-> d.calls > 0 /\ d.objects,
   blocks |-> NormalizedBlocks(r, d), usage |-> ExtractUsage(d)]

\* /responses decodes the chat completion again; tool calls are left out.
RenderResponses(a) == [a EXCEPT !.calls = 0, !.objects = FALSE, !.blocks = <<>>]

-----------------------------------------------------------------------------
NoBody == Written(<<>>, <<>>)
NoReply == [blocks |-> 0, calls |-> 0, thinks |-> FALSE, echoes |-> FALSE, input |-> 0,
            output |-> 0, total |-> 0]
NoAnswer == [text |-> <<>>, calls |-> 0, objects |-> FALSE, blocks |-> <<>>,
             usage |-> [input |-> 0, output |-> 0, total |-> 0]]

\* The proxy takes chat completions only.
Init ==
  /\ stage = "adapt"
  /\ path \in {"gateway", "proxy"}
  /\ raw \in {r \in Raws : path = "proxy" => r.vendor = "openai"}
  /\ adapted = <<>>
  /\ canonical = [instructions |-> <<>>, messages |-> <<>>, items |-> <<>>]
  /\ profile = Builtin.openai_chat
  /\ body = NoBody
  /\ reply = NoReply
  /\ answer = NoAnswer

Adapt ==
  /\ stage = "adapt" /\ stage' = "route"
  /\ adapted' = AdaptRequest(raw)
  /\ canonical' = AdaptCanonical(raw)
  /\ UNCHANGED <<path, raw, profile, body, reply, answer>>

Route ==
  /\ stage = "route" /\ stage' = "render"
  /\ \E stored \in Stored, family \in Families : profile' = ProfileFromPreset(stored, family)
  /\ UNCHANGED <<path, raw, adapted, canonical, body, reply, answer>>

Render ==
  /\ stage = "render" /\ stage' = "call"
  /\ path = "gateway"
  /\ body' = InjectPrompt(InjectTools(profile, RenderGateway(profile, GatewayContext(adapted))))
  /\ UNCHANGED <<path, raw, adapted, canonical, profile, reply, answer>>

BuildUpstreamRequest ==
  /\ stage = "render" /\ stage' = "call"
  /\ path = "proxy"
  /\ body' = RenderProxy(profile, ProxyContext(profile, canonical))
  /\ UNCHANGED <<path, raw, adapted, canonical, profile, reply, answer>>

\* The upstream answers as its family does.
CallUpstream ==
  /\ stage = "call" /\ stage' = "decode"
  /\ \E r \in Replies :
       /\ profile.family # "openai_responses" => ~r.echoes
       /\ profile.family = "openai_chat" => r.blocks <= 1
       /\ reply' = r
  /\ UNCHANGED <<path, raw, adapted, canonical, profile, body, answer>>

Respond ==
  LET d == IF profile.decoder # "" \/ path = "proxy" THEN Decode(profile, reply)
           ELSE Transform(profile, reply)
      a == RenderChatCompletion(reply, d)
  IN /\ stage = "decode" /\ stage' = "done"
     /\ answer' = IF raw.vendor = "responses" THEN RenderResponses(a) ELSE a
     /\ UNCHANGED <<path, raw, adapted, canonical, profile, body, reply>>

Next == Adapt \/ Route \/ Render \/ BuildUpstreamRequest \/ CallUpstream \/ Respond

Spec == Init /\ [][Next]_chatVars

-----------------------------------------------------------------------------
\* Types: the stages of a request, the profile it was given and its body.
TypeOK ==
  /\ stage \in {"adapt", "route", "render", "call", "decode", "done"}
  /\ profile \in Profile
  /\ reply \in Replies \cup {NoReply}
  /\ body.kind \in {"messages", "text", "request"}

\* Whatever entrance a request came by and whatever profile its candidate has: a
\* body with a list of messages says all that the client said, once and in the
\* client's order, and in the gateway the platform's prompt before the first system
\* text; an anthropic request in blocks is said as the blocks' representation.
SaidOnce ==
  stage \in {"call", "decode", "done"} /\ body.kind = "messages" =>
    LET said == SelectSeq(Words(body.messages), LAMBDA w : w # 0) IN
    /\ [i \in DOMAIN said |-> IF said[i] < 0 THEN -said[i] ELSE said[i]] = [i \in DOMAIN raw.roles |-> i]
    /\ path = "gateway" => Len(Words(body.messages)) = Len(said) + 1
    /\ path = "gateway" => Head(Systems(body.messages)).text[1] = 0

\* What the upstream answers reaches the client through any decoder: the whole
\* text, every tool call (but for /responses), and the tokens that are billed.
AnswerKept ==
  stage = "done" /\ profile.decoder = profile.family =>
    /\ ~reply.echoes => answer.text = Blocks(reply)
    /\ raw.vendor # "responses" => answer.calls = reply.calls
    /\ answer.usage.input = reply.input /\ answer.usage.output = reply.output

\* Every text of an entrance reaches the upstream as the text it is ("for lists only
\* the text blocks are joined", chat.py, 47). Not so: blocks of the Anthropic entrance
\* arrive as the representation of a Python list.
BlocksAreText ==
  stage = "call" /\ body.kind = "messages" => \A i \in DOMAIN Words(body.messages) : Words(body.messages)[i] >= 0

\* The arguments of a tool call are a string of JSON for whoever reads a chat
\* completion ("OpenAI needs string JSON", response_transformer.py, 134). Not so: the
\* decoder of Anthropic messages hands objects on.
ArgumentsAreText == ~answer.objects

=============================================================================
