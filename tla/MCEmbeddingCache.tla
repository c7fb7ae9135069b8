-------------------------- MODULE MCEmbeddingCache --------------------------
(* Two sessions that ask for the same text by both native endpoints and by  *)
(* the OpenAI path, there with options of their own, on the main port and on *)
(* an injection port, and for a text whose vectors are too large to be      *)
(* stored.                                                                  *)
EXTENDS EmbeddingCache

CONSTANTS bge, note, book, plain, short

Ask(port, path, text, options) ==
    [port |-> port, path |-> path, model |-> bge, text |-> text, options |-> options]

MCQuestions ==
    {Ask("main", "/api/embed", note, plain), Ask("main", "/api/embeddings", note, plain),
     Ask("main", "/v1/embeddings", note, short), Ask("injection", "/v1/embeddings", note, short),
     Ask("injection", "/api/embed", book, plain)}
=============================================================================
