------------------------------ MODULE AurionGL ------------------------------
(***************************************************************************)
(* The software renderer (AurionGL/auriongl.c): one global context with    *)
(* matrix stacks, a table of textures, the vertices between aglBegin and   *)
(* aglEnd, and an attribute stack that outlives the context.               *)
(*                                                                         *)
(* A matrix is the word of its factors, multiplication is concatenation.   *)
(* The frame buffer is one pixel: the depth written there and the fragment *)
(* that coloured it.  Colours, lights, materials and fog only blend that   *)
(* colour and are left out, as is the texture matrix, which nothing reads. *)
(***************************************************************************)
EXTENDS Naturals, Sequences, FiniteSets

CONSTANTS
  Factors,    \* what a matrix can be multiplied by
  MaxStack,   \* MAX_MATRIX_STACK
  Attribs,    \* entries of attrib_stack
  Textures,   \* MAX_TEXTURES
  Vertices,   \* MAX_VERTICES
  Depths,     \* depths of fragments
  MaxCalls    \* bound: calls of the interface

VARIABLES
  on,          \* g_state # NULL
  mode,        \* matrix_mode
  matrix,      \* modelview_matrix and projection_matrix
  stack,       \* the stack of each
  mvp,         \* mvp_matrix
  caps,        \* the capabilities enabled
  error,       \* last_error
  saved,       \* attrib_stack
  prim, count, \* the primitive begun, or "none"; vertex_count
  bound, next, \* current_texture, next_texture_id
  slot,        \* textures: the id and the block of its data, 0 if none
  blocks,      \* blocks of the heap ever had; those given back
  freed,
  depth, pixel,  \* the depth and the colour of the pixel
  calls

vars == <<on, mode, matrix, stack, mvp, caps, error, saved, prim, count,
          bound, next, slot, blocks, freed, depth, pixel, calls>>
textures == <<bound, next, slot, blocks, freed>>
image == <<depth, pixel>>

Modes == {"modelview", "projection"}
Caps == {"depth", "cull"}
Prims == {"points", "lines", "line strip", "triangles", "triangle strip",
          "triangle fan", "quads"}
Far == 1 + Cardinality(Depths)     \* deeper than every fragment
Identity == <<>>
TextureSlots == 1..Textures

TypeOK ==
  /\ on \in BOOLEAN /\ mode \in Modes
  /\ matrix \in [Modes -> Seq(Factors)] /\ mvp \in Seq(Factors)
  /\ \A m \in Modes : Len(stack[m]) <= MaxStack - 1
  /\ caps \in SUBSET Caps
  /\ error \in {"none", "enum", "operation", "overflow", "underflow", "memory"}
  /\ Len(saved) <= Attribs
  /\ prim \in Prims \cup {"none"} /\ count \in 0..Vertices
  /\ slot \in [TextureSlots -> [id : 0..next, block : 0..blocks]]
  /\ freed \in SUBSET (1..blocks)

Fresh ==
  /\ mode' = "modelview"
  /\ matrix' = [m \in Modes |-> Identity] /\ stack' = [m \in Modes |-> <<>>]
  /\ mvp' = Identity /\ caps' = {} /\ error' = "none"
  /\ prim' = "none" /\ count' = 0
  /\ bound' = 0 /\ next' = 1
  /\ slot' = [s \in TextureSlots |-> [id |-> 0, block |-> 0]]
  /\ depth' = Far

Init ==
  /\ on = FALSE /\ mode = "modelview"
  /\ matrix = [m \in Modes |-> Identity] /\ stack = [m \in Modes |-> <<>>]
  /\ mvp = Identity /\ caps = {} /\ error = "none" /\ saved = <<>>
  /\ prim = "none" /\ count = 0 /\ bound = 0 /\ next = 1
  /\ slot = [s \in TextureSlots |-> [id |-> 0, block |-> 0]]
  /\ blocks = 0 /\ freed = {} /\ depth = Far /\ pixel = 0
  /\ calls = 0

Call == on /\ calls < MaxCalls /\ calls' = calls + 1

-----------------------------------------------------------------------------
(* aglInit: an earlier context is given back, but not its textures. *)
AglInit ==
  /\ calls < MaxCalls /\ calls' = calls + 1
  /\ on' = TRUE
  /\ Fresh
  /\ UNCHANGED <<saved, blocks, freed, pixel>>

(* aglShutdown *)
AglShutdown ==
  /\ Call
  /\ on' = FALSE
  /\ freed' = freed \cup ({slot[s].block : s \in TextureSlots} \ {0})
  /\ UNCHANGED <<mode, matrix, stack, mvp, caps, error, saved, prim, count,
                 bound, next, slot, blocks, image>>

Fail(e) ==
  /\ error' = e
  /\ UNCHANGED <<on, mode, matrix, stack, mvp, caps, saved, prim, count, textures, image>>

(* aglEnable, aglDisable *)
AglEnable(c) ==
  /\ Call /\ caps' = caps \cup {c}
  /\ UNCHANGED <<on, mode, matrix, stack, mvp, error, saved, prim, count, textures, image>>
AglDisable(c) ==
  /\ Call /\ caps' = caps \ {c}
  /\ UNCHANGED <<on, mode, matrix, stack, mvp, error, saved, prim, count, textures, image>>

(* A constant the call does not know: aglBlendFunc, aglDepthFunc and all    *)
(* the others leave their state alone.                                      *)
UnknownEnum == Call /\ Fail("enum")

AglGetError ==
  /\ Call /\ error' = "none"
  /\ UNCHANGED <<on, mode, matrix, stack, mvp, caps, saved, prim, count, textures, image>>

-----------------------------------------------------------------------------
(* Matrices: every change of one is followed by agl_update_mvp_matrix.      *)

AglMatrixMode ==
  /\ Call /\ mode' \in Modes
  /\ UNCHANGED <<on, matrix, stack, mvp, caps, error, saved, prim, count, textures, image>>

Product(m) == m["projection"] \o m["modelview"]

Set(which, m) ==
  /\ matrix' = [matrix EXCEPT ![which] = m]
  /\ mvp' = Product(matrix')
  /\ UNCHANGED <<on, mode, caps, saved, prim, count, textures, image>>

AglLoadIdentity == Call /\ Set(mode, Identity) /\ UNCHANGED <<stack, error>>
(* aglLoadMatrix, aglLoadTransposeMatrix *)
AglLoadMatrix(f) == Call /\ Set(mode, <<f>>) /\ UNCHANGED <<stack, error>>
(* aglTranslate, aglRotate, aglScale, aglMultMatrix *)
AglMultMatrix(f) == Call /\ Set(mode, Append(matrix[mode], f)) /\ UNCHANGED <<stack, error>>

(* aglPerspective, aglOrtho, aglFrustum set the projection in its mode and  *)
(* multiply it in any other; aglLookAt likewise with the other matrix.      *)
AglProjection(f) ==
  /\ Call /\ UNCHANGED <<stack, error>>
  /\ Set("projection", IF mode = "projection" THEN <<f>>
                                              ELSE Append(matrix["projection"], f))
AglLookAt(f) ==
  /\ Call /\ UNCHANGED <<stack, error>>
  /\ Set("modelview", IF mode = "modelview" THEN <<f>>
                                            ELSE Append(matrix["modelview"], f))

AglPushMatrix ==
  /\ Call
  /\ IF Len(stack[mode]) < MaxStack - 1
       THEN /\ stack' = [stack EXCEPT ![mode] = Append(@, matrix[mode])]
            /\ UNCHANGED <<on, mode, matrix, mvp, caps, error, saved, prim, count, textures, image>>
       ELSE Fail("overflow")

Last(q) == q[Len(q)]
Front(q) == SubSeq(q, 1, Len(q) - 1)

AglPopMatrix ==
  /\ Call
  /\ IF stack[mode] = <<>> THEN Fail("underflow")
     ELSE /\ Set(mode, Last(stack[mode]))
          /\ stack' = [stack EXCEPT ![mode] = Front(@)]
          /\ UNCHANGED error

(* aglPushAttrib writes only what the mask names into an entry that may     *)
(* hold what an earlier user left; aglPopAttrib takes back all of it.       *)
Unsaved == [caps |-> {}, mode |-> "none", matrix |-> [m \in Modes |-> Identity]]
AglPushAttrib ==
  /\ Call
  /\ \E mask \in SUBSET {"enable", "transform"} :
       IF Len(saved) = Attribs THEN Fail("overflow")
       ELSE /\ saved' = Append(saved,
                 [caps |-> IF "enable" \in mask THEN caps ELSE Unsaved.caps,
                  mode |-> IF "transform" \in mask THEN mode ELSE Unsaved.mode,
                  matrix |-> IF "transform" \in mask THEN matrix ELSE Unsaved.matrix])
            /\ UNCHANGED <<on, mode, matrix, stack, mvp, caps, error, prim, count, textures, image>>

AglPopAttrib ==
  /\ Call
  /\ IF saved = <<>> THEN Fail("underflow")
     ELSE /\ Last(saved).mode # "none"     \* what zero as a mode does is not followed
          /\ caps' = Last(saved).caps /\ mode' = Last(saved).mode
          /\ matrix' = Last(saved).matrix /\ mvp' = Product(matrix')
          /\ saved' = Front(saved)
          /\ UNCHANGED <<on, stack, error, prim, count, textures, image>>

-----------------------------------------------------------------------------
(* Textures. *)

AglGenTextures ==
  /\ Call /\ next' = next + 1
  /\ UNCHANGED <<on, mode, matrix, stack, mvp, caps, error, saved, prim, count,
                 bound, slot, blocks, freed, image>>

AglBindTexture ==
  /\ Call /\ bound' \in 0..(next - 1)
  /\ UNCHANGED <<on, mode, matrix, stack, mvp, caps, error, saved, prim, count,
                 next, slot, blocks, freed, image>>

Lowest(S) == CHOOSE s \in S : \A t \in S : s <= t
With(id) == {s \in TextureSlots : slot[s].id = id}
Block(s) == {slot[s].block} \ {0}

AglDeleteTextures ==
  /\ Call
  /\ \E id \in 1..(next - 1) :
       IF With(id) = {} THEN UNCHANGED <<slot, freed>>
       ELSE LET s == Lowest(With(id)) IN
            /\ freed' = freed \cup Block(s)
            /\ slot' = [slot EXCEPT ![s] = [id |-> 0, block |-> 0]]
  /\ UNCHANGED <<on, mode, matrix, stack, mvp, caps, error, saved, prim, count,
                 bound, next, blocks, image>>

(* aglTexImage2D: the slot of the bound texture or else the first free one; *)
(* its old data is given back before new memory is asked for.               *)
AglTexImage2D ==
  /\ Call
  /\ IF With(bound) = {} /\ With(0) = {} THEN Fail("memory")
     ELSE LET s == IF With(bound) # {} THEN Lowest(With(bound)) ELSE Lowest(With(0)) IN
          /\ freed' = freed \cup Block(s)
          /\ \/ /\ blocks' = blocks + 1
                /\ slot' = [slot EXCEPT ![s] = [id |-> bound, block |-> blocks + 1]]
                /\ UNCHANGED error
             \/ /\ slot' = [slot EXCEPT ![s] = [id |-> @.id, block |-> 0]]
                /\ error' = "memory"
                /\ UNCHANGED blocks
          /\ UNCHANGED <<on, mode, matrix, stack, mvp, caps, saved, prim, count,
                         bound, next, image>>

-----------------------------------------------------------------------------
(* Drawing. *)

AglBegin ==
  /\ Call
  /\ IF prim # "none" THEN Fail("operation")
     ELSE /\ prim' \in Prims /\ count' = 0
          /\ UNCHANGED <<on, mode, matrix, stack, mvp, caps, error, saved, textures, image>>

(* aglVertex2f, 3f, 4f *)
AglVertex ==
  /\ Call
  /\ IF prim = "none" THEN Fail("operation")
     ELSE IF count = Vertices THEN Fail("memory")
     ELSE /\ count' = count + 1
          /\ UNCHANGED <<on, mode, matrix, stack, mvp, caps, error, saved, prim, textures, image>>

(* agl_rasterize_primitives: how many points, lines or triangles.           *)
Drawn(p, n) ==
  CASE p = "points" -> n
    [] p = "lines" -> n \div 2
    [] p = "line strip" -> IF n > 0 THEN n - 1 ELSE 0
    [] p = "triangles" -> n \div 3
    [] p \in {"triangle strip", "triangle fan"} -> IF n > 2 THEN n - 2 ELSE 0
    [] p = "quads" -> 2 * (n \div 4)

(* agl_depth_test: what passes is written at once. *)
Passes(z, d) == "depth" \notin caps \/ z < d
Written(z, d) == IF "depth" \in caps /\ z < d THEN z ELSE d

(* agl_set_pixel, in the viewport and without blending. *)
Coloured(z, d, old) == IF Passes(z, d) THEN z ELSE old

(* A point or a line: one test, then the pixel. *)
Dot(z) ==
  /\ depth' = Written(z, depth)
  /\ pixel' = Coloured(z, depth, pixel)

(* agl_draw_triangle_scanline: the upper half tests a second time, against  *)
(* the depth it has just written; the lower half does not.                  *)
Upper(z) ==
  /\ depth' = Written(z, depth)
  /\ pixel' = IF Passes(z, depth) THEN Coloured(z, Written(z, depth), pixel) ELSE pixel
Lower(z) == Dot(z)
Triangle(z) == Upper(z) \/ Lower(z)

(* A fragment of at most one of the things drawn is followed; one that      *)
(* faces away is culled.                                                    *)
Rasterize(p, n) ==
  IF Drawn(p, n) = 0 THEN UNCHANGED image
  ELSE \/ \E z \in Depths : IF p \in {"points", "lines", "line strip"}
                             THEN Dot(z) ELSE Triangle(z)
       \/ UNCHANGED image

AglEnd ==
  /\ Call
  /\ IF prim = "none" THEN Fail("operation")
     ELSE /\ prim' = "none" /\ count' = 0
          /\ Rasterize(prim, count)
          /\ UNCHANGED <<on, mode, matrix, stack, mvp, caps, error, saved, textures>>

(* aglDrawCube and one face of aglDrawTorus or aglDrawCylinder: a whole     *)
(* primitive of the library's own, and joined to one that was begun before. *)
AglShape ==
  /\ Call
  /\ LET first == IF prim = "none" THEN 0 ELSE count
         kind == IF prim = "none" THEN "quads" ELSE prim
         fits == first + 4 <= Vertices
     IN /\ error' = IF ~fits THEN "memory" ELSE IF prim # "none" THEN "operation" ELSE error
        /\ Rasterize(kind, IF fits THEN first + 4 ELSE Vertices)
  /\ prim' = "none" /\ count' = 0
  /\ UNCHANGED <<on, mode, matrix, stack, mvp, caps, saved, textures>>

(* aglClear *)
AglClear ==
  /\ Call /\ depth' = Far /\ pixel' = 0
  /\ UNCHANGED <<on, mode, matrix, stack, mvp, caps, error, saved, prim, count, textures>>

Next ==
  \/ AglInit \/ AglShutdown \/ UnknownEnum \/ AglGetError
  \/ \E c \in Caps : AglEnable(c) \/ AglDisable(c)
  \/ AglMatrixMode \/ AglLoadIdentity \/ AglPushMatrix \/ AglPopMatrix
  \/ \E f \in Factors : AglLoadMatrix(f) \/ AglMultMatrix(f) \/ AglProjection(f) \/ AglLookAt(f)
  \/ AglPushAttrib \/ AglPopAttrib
  \/ AglGenTextures \/ AglBindTexture \/ AglDeleteTextures \/ AglTexImage2D
  \/ AglBegin \/ AglVertex \/ AglEnd \/ AglShape \/ AglClear

Spec == Init /\ [][Next]_vars

-----------------------------------------------------------------------------
(* Vertices are transformed by the matrices the caller sees, whatever was   *)
(* pushed and popped in between; and a texture's data is its own, and in    *)
(* the heap, as long as the context is.                                     *)
ContextSound ==
  on => /\ mvp = Product(matrix)
        /\ \A s, t \in TextureSlots :
             /\ slot[s].block \notin freed
             /\ s # t => /\ slot[s].block = 0 \/ slot[s].block # slot[t].block
                         /\ slot[s].id = 0 \/ slot[s].id # slot[t].id
=============================================================================
