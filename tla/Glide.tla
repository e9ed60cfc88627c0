------------------------------- MODULE Glide --------------------------------
(***************************************************************************)
(* The software rasterizer behind the Triton machine's Glide hypercalls    *)
(* (triton-audio/demo/glide_raster.c).  A guest call is a record; Dispatch *)
(* gives the rasterizer's registers g and its memory m after the call.     *)
(*                                                                         *)
(* Of the three colour channels, which go through the same arithmetic, the *)
(* blue one is kept; memory holds what the code stores of it: 5 bits of a  *)
(* pixel, a byte of a texture.  Coordinates are sixteenths of a pixel, z   *)
(* is in units of 1/65535, and what the code computes in floating point is *)
(* exact here (a fraction <<numerator, denominator>>).                     *)
(***************************************************************************)
EXTENDS Integers, Sequences, SequencesExt

CONSTANTS W, H,      \* the screen
          TexBytes,  \* texture memory
          FogSize,   \* entries of the fog table
          Scenes,    \* records [name, kind, once : is no call repeated, count : of calls]
          Tried      \* [name -> [n -> the calls tried as the n-th]]

VARIABLES g, m, scene, done, shown
glVars == <<g, m, scene, done, shown>>

Pixels == (0 .. W - 1) \X (0 .. H - 1)
Buffers == {"A", "B"}

(*************************** fractions *****************************)
Gcd[a \in Nat, b \in Nat] == IF b = 0 THEN a ELSE Gcd[b, a % b]
Q(n, d) == LET k == Gcd[IF n < 0 THEN -n ELSE n, d] IN <<n \div k, d \div k>>
Whole(n) == <<n, 1>>
Plus(p, q) == Q(p[1] * q[2] + q[1] * p[2], p[2] * q[2])
Minus(p, q) == Plus(p, <<-q[1], q[2]>>)
Times(p, q) == Q(p[1] * q[1], p[2] * q[2])

\* (int)(x + 0.5f): towards zero, also below it.
Round(p) ==
    LET n == 2 * p[1] + p[2]
        d == 2 * p[2]
    IN IF n >= 0 THEN n \div d ELSE -((-n) \div d)
Truncate(p) == IF p[1] >= 0 THEN p[1] \div p[2] ELSE -((-p[1]) \div p[2])

Limit(n, lo, hi) == IF n < lo THEN lo ELSE IF n > hi THEN hi ELSE n

pack_rgb565(b) == Limit(b, 0, 255) \div 8
unpack_rgb565(b5) == b5 * 8 + b5 \div 4

(*************************** vertices *****************************)
\* v holds every attribute the guest stored; only those of the layout are read.
read_vertex(v) ==
    LET has(p) == p \in g.layout
    IN [x |-> IF has("XY") THEN v.x ELSE 0,
        y |-> IF has("XY") THEN v.y ELSE 0,
        z |-> IF has("Z") THEN v.z ELSE 0,
        w |-> IF has("W") THEN v.w ELSE 1,
        b |-> IF has("PARGB") THEN v.pb ELSE IF has("RGB") THEN v.b ELSE 0,
        a |-> IF has("PARGB") THEN v.pa ELSE IF has("A") THEN v.a ELSE 255,
        s |-> IF has("ST0") THEN v.s ELSE 0,
        t |-> IF has("ST0") THEN v.t ELSE 0]

\* The vertex a drawing call hands on, flipped for an origin in the lower left.
Placed(v) ==
    LET r == read_vertex(v)
    IN IF g.origin = "LOWER_LEFT" THEN [r EXCEPT !.y = 16 * (H - 1) - @] ELSE r

(*************************** textures *****************************)
Texel16 == {"RGB_565", "ARGB_1555", "ARGB_4444", "ALPHA_INTENSITY_88"}
Texel8 == {"RGB_332", "ALPHA_8", "INTENSITY_8", "ALPHA_INTENSITY_44", "P_8"}

Dims(lod, aspect) ==
    LET side == 2 ^ lod
        short(k) == Limit(side \div 2 ^ k, 1, side)
    IN IF aspect >= 0 THEN <<side, short(aspect)>> ELSE <<short(-aspect), side>>

tex_level_size(format, lod, aspect) ==
    LET d == Dims(lod, aspect) IN d[1] * d[2] * (IF format \in Texel8 THEN 1 ELSE 2)

tex_mipmap_size(format, large, small, aspect) ==
    FoldLeft(LAMBDA sum, lod : sum + tex_level_size(format, lod, aspect), 0,
             [i \in 1 .. large - small + 1 |-> large - i + 1])

\* C's remainder has the sign of the dividend; the code adds the size back.
Wrapped(s, size, mode) ==
    IF mode = "CLAMP" THEN Limit(s, 0, size - 1) ELSE s % size

\* Where a texel starts, for the formats that are read from memory.
TexelAt(s, t) ==
    LET at == Wrapped(t, g.tex.h, g.clamp_t) * g.tex.w + Wrapped(s, g.tex.w, g.clamp_s)
    IN g.tex.base + (IF g.tex.format \in Texel16 THEN 2 * at ELSE at)

\* [b, a] of a texel; the high byte of a 16-bit texel comes first.
tex_sample(s, t) ==
    LET at == TexelAt(s, t)
        five == m.tex[at + 1] % 32
        f == g.tex.format
    IN CASE f = "RGB_565"     -> [b |-> unpack_rgb565(five), a |-> 255]
         [] f = "ARGB_1555"   -> [b |-> unpack_rgb565(five), a |-> IF m.tex[at] >= 128 THEN 255 ELSE 0]
         [] f = "ARGB_4444"   -> [b |-> (m.tex[at + 1] % 16) * 17, a |-> (m.tex[at] \div 16) * 17]
         [] f = "INTENSITY_8" -> [b |-> m.tex[at], a |-> 255]
         [] f = "ALPHA_8"     -> [b |-> 255, a |-> m.tex[at]]
         [] OTHER             -> [b |-> 255, a |-> 255]

(*************************** the pixel pipeline *****************************)
Scaled(a) == Times(a, <<1, 255>>)
Rest(p) == Minus(Whole(1), p)

combine_channel(local, other, factor, function, alpha) ==
    LET scaled == Times(other, factor)
        difference == Times(Minus(other, local), factor)
        negated == Times(Minus(Whole(0), local), factor)
    IN CASE function = "ZERO" -> Whole(0)
         [] function = "LOCAL" -> local
         [] function = "LOCAL_ALPHA" -> alpha
         [] function = "SCALE_OTHER" -> scaled
         [] function = "BLEND_OTHER" -> Plus(scaled, Times(local, Rest(factor)))
         [] function = "SCALE_OTHER_ADD_LOCAL" -> Plus(scaled, local)
         [] function = "SCALE_OTHER_ADD_LOCAL_ALPHA" -> Plus(scaled, alpha)
         [] function = "SCALE_OTHER_MINUS_LOCAL" -> difference
         [] function = "SCALE_OTHER_MINUS_LOCAL_ADD_LOCAL" -> Plus(difference, local)
         [] function = "SCALE_OTHER_MINUS_LOCAL_ADD_LOCAL_ALPHA" -> Plus(difference, alpha)
         [] function = "SCALE_MINUS_LOCAL_ADD_LOCAL" -> Plus(negated, local)
         [] function = "SCALE_MINUS_LOCAL_ADD_LOCAL_ALPHA" -> Plus(negated, alpha)
         [] OTHER -> local

select_factor(factor, local, localA, otherA, texA) ==
    CASE factor = "LOCAL" -> Scaled(local)
      [] factor = "OTHER_ALPHA" -> Scaled(otherA)
      [] factor = "LOCAL_ALPHA" -> Scaled(localA)
      [] factor = "TEXTURE_ALPHA" -> Scaled(texA)
      [] factor = "ONE" -> Whole(1)
      [] factor = "ONE_MINUS_LOCAL" -> Rest(Scaled(local))
      [] factor = "ONE_MINUS_OTHER_ALPHA" -> Rest(Scaled(otherA))
      [] factor = "ONE_MINUS_LOCAL_ALPHA" -> Rest(Scaled(localA))
      [] factor = "ONE_MINUS_TEXTURE_ALPHA" -> Rest(Scaled(texA))
      [] OTHER -> Whole(0)

\* The source a combine unit names; iter, texel and the constant are [b, a].
Source(name, iter, texel) ==
    CASE name = "ITERATED" -> iter
      [] name = "TEXTURE" -> texel
      [] name = "CONSTANT" -> [b |-> Whole(g.constant.b), a |-> Whole(g.constant.a)]
      [] OTHER -> [b |-> Whole(0), a |-> Whole(0)]

LocalSource(name, iter) == Source(IF name = "TEXTURE" THEN "NONE" ELSE name, iter, iter)
Inverted(flag, v) == IF flag THEN Minus(Whole(255), v) ELSE v

color_combine(iter, texel) ==
    LET local == LocalSource(g.cc.local, iter)
        other == Source(g.cc.other, iter, texel)
        factor == select_factor(g.cc.factor, local.b, local.a, other.a, texel.a)
    IN Inverted(g.cc.invert, combine_channel(local.b, other.b, factor, g.cc.function, local.a))

alpha_combine(iter, texel) ==
    LET local == LocalSource(g.ac.local, iter).a
        other == Source(g.ac.other, iter, texel).a
        factor == select_factor(g.ac.factor, local, local, other, texel.a)
    IN Inverted(g.ac.invert, combine_channel(local, other, factor, g.ac.function, local))

depth_compare(func, incoming, stored) ==
    CASE func = "NEVER" -> FALSE
      [] func = "LESS" -> incoming < stored
      [] func = "EQUAL" -> incoming = stored
      [] func = "LEQUAL" -> incoming <= stored
      [] func = "GREATER" -> incoming > stored
      [] func = "NOTEQUAL" -> incoming # stored
      [] func = "GEQUAL" -> incoming >= stored
      [] OTHER -> TRUE

\* The frame buffer has no alpha: the destination's is 255.
blend_factor(func, srcA) ==
    CASE func \in {"ZERO", "ONE_MINUS_DST_ALPHA"} -> Whole(0)
      [] func = "SRC_ALPHA" -> Scaled(srcA)
      [] func = "ONE_MINUS_SRC_ALPHA" -> Rest(Scaled(srcA))
      [] OTHER -> Whole(1)

\* (int)(4 log2(q) + 0.5) within the table: the largest i with q^8 >= 2^(2i - 1).
FogIndex(q) ==
    IF q[1] <= 0 THEN FogSize - 1
    ELSE Max({0} \cup {i \in 1 .. FogSize - 1 : q[1] ^ 8 >= q[2] ^ 8 * 2 ^ (2 * i - 1)})

apply_fog(q, b) ==
    LET fog == Q(g.fog_table[FogIndex(q)], 255)
    IN IF g.fog_mode = "DISABLE" THEN b ELSE Plus(Times(b, Rest(fog)), Times(Whole(g.fog_color), fog))

\* What a fragment leaves of the pixel [b : stored blue, z : stored depth].
Fragment(px, iter, q, z, texel) ==
    LET b == apply_fog(q, color_combine(iter, texel))
        a == alpha_combine(iter, texel)
        tested == g.alpha_func = "ALWAYS" \/ depth_compare(g.alpha_func, Limit(Round(a), 0, 255), g.alpha_ref)
        biased == Limit(Limit(Round(z), 0, 65535) + g.depth_bias, 0, 65535)
        nearer == g.depth_mode = "DISABLE" \/ depth_compare(g.depth_func, biased, px.z)
        over == Plus(Times(b, blend_factor(g.ab.src, a)), Times(Whole(unpack_rgb565(px.b)), blend_factor(g.ab.dst, a)))
        final == Round(IF g.ab = [src |-> "ONE", dst |-> "ZERO"] THEN b ELSE over)
    IN IF ~tested \/ ~nearer THEN px
       ELSE [b |-> IF g.color_mask THEN pack_rgb565(final) ELSE px.b,
             z |-> IF g.depth_mode # "DISABLE" /\ g.depth_mask THEN biased ELSE px.z]

(*************************** drawing *****************************)
\* The edge function of p -> q at the point <<x, y>>, and the top-left rule.
Edge(p, q, x, y) == (p.y - q.y) * (x - p.x) + (q.x - p.x) * (y - p.y)
TopLeft(p, q) == p.y > q.y \/ (p.y = q.y /\ q.x > p.x)


Bias(p, q) == IF TopLeft(p, q) THEN 0 ELSE -1

Fixed(v) == [v EXCEPT !.x = Round(Whole(@)), !.y = Round(Whole(@))]
Area(p, q, r) == (q.x - p.x) * (r.y - p.y) - (r.x - p.x) * (q.y - p.y)

\* The pixels the loops visit: the bounding box within the scissor.
Box(p, q, r) ==
    LET lo(i, j, k) == (Min({i, j, k}) + 15) \div 16
        hi(i, j, k) == Max({i, j, k}) \div 16
    IN (Max({lo(p.x, q.x, r.x), g.clip.x0}) .. Min({hi(p.x, q.x, r.x), g.clip.x1 - 1}))
       \X (Max({lo(p.y, q.y, r.y), g.clip.y0}) .. Min({hi(p.y, q.y, r.y), g.clip.y1 - 1}))

\* buf is [pixel -> [b, z]] of the target and the depth buffer.
draw_triangle(buf, v0, v1, v2) ==
    LET area == Area(Fixed(v0), Fixed(v1), Fixed(v2))
        culled == \/ area = 0
                  \/ g.cull_mode = "POSITIVE" /\ area > 0
                  \/ g.cull_mode = "NEGATIVE" /\ area < 0
        p == Fixed(v0)
        q == Fixed(IF area < 0 THEN v2 ELSE v1)
        r == Fixed(IF area < 0 THEN v1 ELSE v2)
        size == IF area < 0 THEN -area ELSE area
        Mixed(f(_), w0, w1) == Q(f(p) * w0 + f(q) * w1 + f(r) * (size - w0 - w1), size)
        Painted(px, x, y) ==
            LET w0 == Edge(q, r, x, y)
                w1 == Edge(r, p, x, y)
                w2 == Edge(p, q, x, y)
                At(f(_)) == Mixed(f, w0, w1)
                q1 == At(LAMBDA v : v.w)
                over(c) == IF q1[1] > 0 THEN Q(c[1] * q1[2], c[2] * q1[1]) ELSE c
                texel == IF g.tex.w = 0 THEN [b |-> 0, a |-> 255]
                         ELSE tex_sample(Truncate(over(At(LAMBDA v : v.s))), Truncate(over(At(LAMBDA v : v.t))))
            IN IF w0 + Bias(q, r) < 0 \/ w1 + Bias(r, p) < 0 \/ w2 + Bias(p, q) < 0 THEN px
               ELSE Fragment(px, [b |-> At(LAMBDA v : v.b), a |-> At(LAMBDA v : v.a)], q1, At(LAMBDA v : v.z),
                             [b |-> Whole(texel.b), a |-> Whole(texel.a)])
    IN IF culled THEN buf
       ELSE [px \in Pixels |->
                IF px \in Box(p, q, r) THEN Painted(buf[px], 16 * px[1] + 8, 16 * px[2] + 8) ELSE buf[px]]

Clipped(px) == px[1] >= g.clip.x0 /\ px[1] < g.clip.x1 /\ px[2] >= g.clip.y0 /\ px[2] < g.clip.y1
ToPixel(c) == Round(<<c, 16>>)
Set(buf, px, b) == IF Clipped(px) THEN [buf EXCEPT ![px].b = pack_rgb565(Round(b))] ELSE buf

\* Bresenham's steps from <<x, y>> to the end e, with the error so far; by is the
\* step <<sx, sy>> and d is <<dx, dy>>.
RECURSIVE Stepped(_, _, _, _, _, _)
Stepped(x, y, e, err, by, d) ==
    LET side == 2 * err > -d[2]
        down == 2 * err < d[1]
    IN <<<<x, y>>>> \o
       (IF <<x, y>> = e THEN <<>>
        ELSE Stepped(IF side THEN x + by[1] ELSE x, IF down THEN y + by[2] ELSE y, e,
                     err - (IF side THEN d[2] ELSE 0) + (IF down THEN d[1] ELSE 0), by, d))

Span(v0, v1) ==
    LET size(n) == IF n < 0 THEN -n ELSE n
    IN <<size(ToPixel(v1.x) - ToPixel(v0.x)), size(ToPixel(v1.y) - ToPixel(v0.y))>>

LinePixels(v0, v1) ==
    LET d == Span(v0, v1)
        sign(i, j) == IF i < j THEN 1 ELSE -1
    IN Stepped(ToPixel(v0.x), ToPixel(v0.y), <<ToPixel(v1.x), ToPixel(v1.y)>>, d[1] - d[2],
               <<sign(ToPixel(v0.x), ToPixel(v1.x)), sign(ToPixel(v0.y), ToPixel(v1.y))>>, d)

draw_line(buf, v0, v1) ==
    LET path == LinePixels(v0, v1)
        steps == Max({1} \cup Range(Span(v0, v1)))
    IN FoldLeft(LAMBDA b, i : Set(b, path[i], Plus(Whole(v0.b), Q((v1.b - v0.b) * (i - 1), steps))),
                buf, [i \in 1 .. Len(path) |-> i])

draw_point(buf, v) == Set(buf, <<ToPixel(v.x), ToPixel(v.y)>>, Whole(v.b))

(*************************** hypercalls *****************************)
Target(n) == IF n = "FRONT" THEN g.front ELSE g.back

\* The drawing calls work on the current target and the depth buffer.
Drawn(Draw(_)) ==
    LET buf == Draw([px \in Pixels |-> [b |-> m[g.draw][px], z |-> m.Z[px]]])
    IN [m EXCEPT ![g.draw] = [px \in Pixels |-> buf[px].b], !.Z = [px \in Pixels |-> buf[px].z]]

\* Triangles of the vertices k.v, three at a time; a rest of one or two is left.
hc_draw_vertex_array(k) ==
    LET v == k.v
        Three(buf, i) == draw_triangle(buf, Placed(v[3 * i - 2]), Placed(v[3 * i - 1]), Placed(v[3 * i]))
    IN IF k.mode # "TRIANGLES" THEN m
       ELSE Drawn(LAMBDA buf : FoldLeft(Three, buf, [i \in 1 .. Len(v) \div 3 |-> i]))

hc_buffer_clear(k) ==
    LET cleared == [m EXCEPT ![g.draw] = [px \in Pixels |-> pack_rgb565(k.b)]]
    IN IF g.depth_mode = "DISABLE" THEN cleared ELSE [cleared EXCEPT !.Z = [px \in Pixels |-> k.z]]

\* vblank holds the interval the main loop waits for, with the CPU halted.
hc_buffer_swap(k) ==
    [g EXCEPT !.front = g.back, !.back = g.front, !.draw = g.front,
              !.vblank = IF k.interval > 0 THEN k.interval ELSE @]

hc_clip_window(k) ==
    [g EXCEPT !.clip = [x0 |-> Max({k.x0, 0}), y0 |-> Max({k.y0, 0}), x1 |-> Min({k.x1, W}), y1 |-> Min({k.y1, H})]]

hc_sst_win_open ==
    LET plain == [function |-> "LOCAL", factor |-> "ZERO", local |-> "ITERATED", other |-> "ITERATED"]
    IN [g EXCEPT !.open = TRUE, !.front = "A", !.back = "B", !.draw = "B", !.origin = "UPPER_LEFT",
                 !.clip = [x0 |-> 0, y0 |-> 0, x1 |-> W, y1 |-> H], !.depth_func = "LESS", !.depth_mask = TRUE,
                 !.alpha_func = "ALWAYS", !.color_mask = TRUE, !.ab = [src |-> "ONE", dst |-> "ZERO"],
                 !.cc = [invert |-> @.invert] @@ plain, !.ac = [invert |-> @.invert] @@ plain]

hc_tex_source(k) ==
    LET d == Dims(k.lod, k.aspect)
    IN [g EXCEPT !.tex = [base |-> k.start, format |-> k.format, w |-> d[1], h |-> d[2], lod |-> k.lod, aspect |-> k.aspect]]

\* k.data is what the guest's memory repeats from the source address on; an
\* address that is no memory copies nothing.
hc_tex_download_mipmap_level(k) ==
    LET size == tex_level_size(k.format, k.lod, k.aspect)
    IN IF k.start + size > TexBytes \/ k.data = <<>> THEN m
       ELSE [m EXCEPT !.tex = [at \in DOMAIN @ |-> IF at \in k.start .. k.start + size - 1
                                                   THEN k.data[1 + ((at - k.start) % Len(k.data))] ELSE @[at]]]

hc_vertex_layout(k) ==
    [g EXCEPT !.layout = IF k.mode = "DISABLE" THEN @ \ {k.param} ELSE @ \cup {k.param}]

\* The region's rows and columns that fall outside the screen are skipped.
hc_lfb_write_region(k) ==
    LET inside == {px \in Pixels : px[1] \in k.x .. k.x + k.w - 1 /\ px[2] \in k.y .. k.y + k.h - 1}
    IN [m EXCEPT ![Target(k.buffer)] =
           [px \in Pixels |-> IF px \in inside THEN k.pixel[1 + ((px[1] - k.x + px[2] - k.y) % Len(k.pixel))] ELSE @[px]]]

\* The state-setting calls store their arguments in the registers k.to names.
Store(k) == [f \in DOMAIN g |-> IF f \in DOMAIN k.to THEN k.to[f] ELSE g[f]]

\* The texture queries answer in d0; the other calls leave it.
Answer(k) ==
    CASE k.op = "texRequired" -> tex_mipmap_size(k.format, k.large, k.small, k.aspect)
      [] k.op = "texMax" -> TexBytes
      [] OTHER -> 0

glide_dispatch(k) ==
    /\ g' = CASE k.op = "set" -> Store(k)
              [] k.op = "winOpen" -> hc_sst_win_open
              [] k.op = "winClose" -> [g EXCEPT !.open = FALSE]
              [] k.op = "shutdown" -> [g EXCEPT !.open = FALSE]
              [] k.op = "swap" -> hc_buffer_swap(k)
              [] k.op = "renderBuffer" -> [g EXCEPT !.draw = Target(k.buffer)]
              [] k.op = "clip" -> hc_clip_window(k)
              [] k.op = "texSource" -> hc_tex_source(k)
              [] k.op = "layout" -> hc_vertex_layout(k)
              [] k.op \in {"texRequired", "texMax"} -> [g EXCEPT !.d0 = Answer(k)]
              [] OTHER -> g
    /\ m' = CASE k.op = "clear" -> hc_buffer_clear(k)
              [] k.op = "triangles" -> hc_draw_vertex_array(k)
              [] k.op = "line" -> Drawn(LAMBDA buf : draw_line(buf, Placed(k.v[1]), Placed(k.v[2])))
              [] k.op = "point" -> Drawn(LAMBDA buf : draw_point(buf, Placed(k.v[1])))
              [] k.op = "texDownload" -> hc_tex_download_mipmap_level(k)
              [] k.op = "lfbWrite" -> hc_lfb_write_region(k)
              [] OTHER -> m

\* glide_init, and memory that is all zero.
GlideInit ==
    /\ scene \in Scenes
    /\ g = [open |-> FALSE, front |-> "A", back |-> "A", draw |-> "A", vblank |-> 0, d0 |-> 0, origin |-> "UPPER_LEFT",
            clip |-> [x0 |-> 0, y0 |-> 0, x1 |-> W, y1 |-> H], layout |-> {}, cull_mode |-> "DISABLE",
            depth_mode |-> "DISABLE", depth_func |-> "LESS", depth_mask |-> TRUE, depth_bias |-> 0,
            alpha_func |-> "ALWAYS", alpha_ref |-> 0, color_mask |-> TRUE, ab |-> [src |-> "ONE", dst |-> "ZERO"],
            cc |-> [function |-> "LOCAL", factor |-> "ZERO", local |-> "ITERATED", other |-> "ITERATED", invert |-> FALSE],
            ac |-> [function |-> "LOCAL", factor |-> "ZERO", local |-> "ITERATED", other |-> "ITERATED", invert |-> FALSE],
            constant |-> [b |-> 0, a |-> 0], fog_mode |-> "DISABLE", fog_color |-> 0,
            fog_table |-> [i \in 0 .. FogSize - 1 |-> 0], clamp_s |-> "WRAP", clamp_t |-> "WRAP",
            tex |-> [base |-> 0, format |-> "RGB_332", w |-> 0, h |-> 0, lod |-> 0, aspect |-> 0]]
    /\ m = [A |-> [px \in Pixels |-> 0], B |-> [px \in Pixels |-> 0], Z |-> [px \in Pixels |-> 0],
            tex |-> [at \in 0 .. TexBytes - 1 |-> 0]]
    /\ done = <<>>
    /\ shown = m.A

\* Does the guest draw to the front buffer: is its last word on the target that?
Targets == {"winOpen", "swap", "renderBuffer"}
ToFront(calls) ==
    LET said == {i \in DOMAIN calls : calls[i].op \in Targets}
    IN said # {} /\ calls[Max(said)].op = "renderBuffer" /\ calls[Max(said)].buffer = "FRONT"

\* shown is what the front buffer held when it came to the front, and what the
\* guest itself then drew there.
Call(k) ==
    /\ glide_dispatch(k)
    /\ done' = Append(done, k)
    /\ shown' = CASE k.op = "winOpen" -> m.A
                  [] k.op = "swap" -> m[g.back]
                  [] k.op = "lfbWrite" /\ k.buffer = "FRONT" -> m'[g.front]
                  [] k.op \in {"clear", "triangles", "line", "point"} /\ ToFront(done) -> m'[g.front]
                  [] OTHER -> shown
    /\ UNCHANGED scene

GlideNext ==
    /\ Len(done) < scene.count
    /\ \E k \in Tried[scene.name][Len(done) + 1] : (scene.once => k \notin Range(done)) /\ Call(k)

GlideSpec == GlideInit /\ [][GlideNext]_glVars

(***************************************************************************)
(* Properties                                                              *)
(***************************************************************************)
\* Is the pixel's centre, moved right by a hair and down by a hair of that, inside?
\* With it no point is on an edge, so triangles that share one never share a pixel.
Holds(v, px) ==
    LET big == 7000
        x == (16 * px[1] + 8) * big + 100
        y == (16 * px[2] + 8) * big + 1
        side(p, q) == (p.y - q.y) * (x - p.x * big) + (q.x - p.x) * (y - p.y * big) > 0
        a == Placed(v[1])
        b == Placed(v[2])
        c == Placed(v[3])
    IN Clipped(px) /\ side(a, b) = side(b, c) /\ side(b, c) = side(c, a)

Triangles == {i \in DOMAIN done : done[i].op = "triangles"}
Kept(i) == g.cull_mode = "DISABLE" \/ (Area(Placed(done[i].v[1]), Placed(done[i].v[2]), Placed(done[i].v[3])) > 0)
                                         = (g.cull_mode = "NEGATIVE")

\* A mesh is painted without cracks and without a pixel drawn twice: with every
\* triangle added to what is there, a pixel holds one share exactly when a triangle
\* of the mesh holds its centre (the fill rule of draw_triangle).
PaintedOnce ==
    scene.kind = "mesh" =>
        \A px \in Pixels :
            m[g.draw][px] = IF \E i \in Triangles : Kept(i) /\ Holds(done[i].v, px) THEN 1 ELSE 0

\* With the depth test every pixel shows the nearest of the triangles over it,
\* whatever order they came in, and the depth buffer holds that depth; a fragment
\* that fails the alpha test takes part in neither (depth test of draw_triangle).
NearestShown ==
    scene.kind = "depth" =>
        \A px \in Pixels :
            LET over == {i \in Triangles : Holds(done[i].v, px) /\ done[i].v[1].a > 0}
                near == Min({65535} \cup {done[i].v[1].z : i \in over})
                won == {i \in over : done[i].v[1].z = near}
                last == IF g.depth_func = "LESS" THEN Min(won) ELSE Max(won)
            IN Triangles # {} =>
                /\ m.Z[px] = near
                /\ m[g.draw][px] = IF won = {} THEN 0 ELSE done[last].v[1].b \div 8

\* A line reaches both ends, moves one pixel along its longer side at every step, is
\* never more than half a pixel off, and is drawn in the scissor only (draw_line).
LinesStraight ==
    LET k == Last(done)
        path == LinePixels(Placed(k.v[1]), Placed(k.v[2]))
        d == Span(Placed(k.v[1]), Placed(k.v[2]))
        long == Max({d[1], d[2]})
        from == path[1]
        to == path[Len(path)]
        off(px) == 2 * ((px[2] - from[2]) * (to[1] - from[1]) - (px[1] - from[1]) * (to[2] - from[2]))
    IN scene.kind = "line" /\ done # <<>> /\ k.op = "line" =>
        /\ from = <<ToPixel(Placed(k.v[1]).x), ToPixel(Placed(k.v[1]).y)>>
        /\ to = <<ToPixel(Placed(k.v[2]).x), ToPixel(Placed(k.v[2]).y)>>
        /\ Len(path) = long + 1
        /\ \A i \in DOMAIN path : off(path[i]) \in -long .. long
        /\ {px \in Pixels : m[g.draw][px] # 0} = {px \in Range(path) : Clipped(px)}

\* Every texel the sampler can ask for lies in the level the guest was told to
\* reserve, for every format that is read, and the chain holds its levels (tex_sample
\* against tex_level_size and tex_mipmap_size).
SampledInside ==
    g.tex.format \in {"RGB_565", "ARGB_1555", "ARGB_4444", "INTENSITY_8", "ALPHA_8"} /\ g.tex.w > 0 =>
        LET size == tex_level_size(g.tex.format, g.tex.lod, g.tex.aspect)
            bytes == IF g.tex.format \in Texel16 THEN 2 ELSE 1
        IN /\ \A s, t \in -3 .. 4 : TexelAt(s, t) >= g.tex.base /\ TexelAt(s, t) + bytes <= g.tex.base + size
           /\ tex_mipmap_size(g.tex.format, g.tex.lod, 0, g.tex.aspect) >= size

\* What is displayed changes only when buffers are swapped or when the guest has
\* asked for the front buffer since the last swap (hc_buffer_swap, hc_render_buffer).
FrontStable == m[g.front] = shown

\* What the names of a combine unit say: (other, less local if it says so) times the
\* factor, and what it adds.
Named(u, local, other, texel) ==
    LET whole == CASE u.factor \in {"LOCAL", "ONE_MINUS_LOCAL"} -> local.b
                   [] u.factor \in {"LOCAL_ALPHA", "ONE_MINUS_LOCAL_ALPHA"} -> local.a
                   [] u.factor \in {"OTHER_ALPHA", "ONE_MINUS_OTHER_ALPHA"} -> other.a
                   [] u.factor \in {"TEXTURE_ALPHA", "ONE_MINUS_TEXTURE_ALPHA"} -> texel.a
                   [] u.factor = "ONE" -> Whole(255)
                   [] u.factor = "ZERO" -> Whole(0)
        factor == Scaled(IF u.factor \in {"ONE_MINUS_LOCAL", "ONE_MINUS_LOCAL_ALPHA", "ONE_MINUS_OTHER_ALPHA",
                                          "ONE_MINUS_TEXTURE_ALPHA"} THEN Minus(Whole(255), whole) ELSE whole)
        f == u.function
        takes == f \in {"SCALE_OTHER", "BLEND_OTHER", "SCALE_OTHER_ADD_LOCAL", "SCALE_OTHER_ADD_LOCAL_ALPHA",
                        "SCALE_OTHER_MINUS_LOCAL", "SCALE_OTHER_MINUS_LOCAL_ADD_LOCAL",
                        "SCALE_OTHER_MINUS_LOCAL_ADD_LOCAL_ALPHA"}
        less == f \in {"BLEND_OTHER", "SCALE_OTHER_MINUS_LOCAL", "SCALE_OTHER_MINUS_LOCAL_ADD_LOCAL",
                       "SCALE_OTHER_MINUS_LOCAL_ADD_LOCAL_ALPHA", "SCALE_MINUS_LOCAL_ADD_LOCAL",
                       "SCALE_MINUS_LOCAL_ADD_LOCAL_ALPHA"}
        adds == CASE f \in {"LOCAL", "BLEND_OTHER", "SCALE_OTHER_ADD_LOCAL", "SCALE_OTHER_MINUS_LOCAL_ADD_LOCAL",
                            "SCALE_MINUS_LOCAL_ADD_LOCAL"} -> local.b
                  [] f \in {"LOCAL_ALPHA", "SCALE_OTHER_ADD_LOCAL_ALPHA", "SCALE_OTHER_MINUS_LOCAL_ADD_LOCAL_ALPHA",
                            "SCALE_MINUS_LOCAL_ADD_LOCAL_ALPHA"} -> local.a
                  [] OTHER -> Whole(0)
        scaled == Times(Minus(IF takes THEN other.b ELSE Whole(0), IF less THEN local.b ELSE Whole(0)), factor)
    IN Inverted(u.invert, Plus(scaled, adds))

\* A pixel drawn with a combine unit, a fog table and a blend holds what their names
\* say: the unit's colour, mixed with the fog of the pixel's octave, over what was
\* there in the proportion of its alpha (color_combine, apply_fog, the alpha blend).
PixelMeans ==
    scene.kind = "pixel" /\ done # <<>> /\ Last(done).op = "triangles" =>
        LET v == Last(done).v[1]
            under == IF Len(done) > 1 /\ done[Len(done) - 1].op = "clear" THEN done[Len(done) - 1].b ELSE 0
            texel == IF g.tex.w = 0 THEN [b |-> 0, a |-> 255] ELSE tex_sample(0, 0)
            exact(r) == [b |-> Whole(r.b), a |-> Whole(r.a)]
            only(r) == [b |-> r.a, a |-> r.a]
            unit == Named(g.cc, LocalSource(g.cc.local, exact(v)), Source(g.cc.other, exact(v), exact(texel)), exact(texel))
            alpha == Named(g.ac, only(LocalSource(g.ac.local, exact(v))), only(Source(g.ac.other, exact(v), exact(texel))),
                           exact(texel))
            dim == Q(IF g.fog_mode = "DISABLE" THEN 0
                     ELSE g.fog_table[CASE v.w = 1 -> 0 [] v.w = 2 -> 4 [] OTHER -> FogSize - 1], 255)
            foggy == Plus(unit, Times(Minus(Whole(g.fog_color), unit), dim))
            mixed == Plus(Whole(unpack_rgb565(under \div 8)),
                          Scaled(Times(Minus(foggy, Whole(unpack_rgb565(under \div 8))), alpha)))
        IN m[g.draw][<<0, 0>>] = pack_rgb565(Round(IF g.ab.src = "SRC_ALPHA" THEN mixed ELSE foggy))

GlideExact == PaintedOnce /\ NearestShown /\ LinesStraight /\ SampledInside /\ FrontStable /\ PixelMeans
=============================================================================
